---- MODULE Spec2Model ----
(***************************************************************************)
(* NeverForget (src/app.js): the contact-timeline reconciliation logic of  *)
(* the App component.  Persistent records (AsyncStorage), the React state  *)
(* of the component, and the asynchronous handlers (bootstrap, fetch,      *)
(* import-mode choice, ContactsChanged, ContactAddedWithLocation) are      *)
(* modelled as a state machine.  Every `await` of a handler is a           *)
(* suspension point: a handler is a task with a program counter, and one   *)
(* action is the code that runs from one suspension point to the next.     *)
(*                                                                         *)
(* External events happen at distinct instants of the clock; the steps of  *)
(* a handler may share an instant.                                         *)
(* Storage and directory operations take their value when they are issued  *)
(* (AsyncStorage serves requests in the order they are issued); the        *)
(* continuation of the awaiting handler runs in a later step.              *)
(***************************************************************************)
EXTENDS Integers, Sequences, FiniteSets, TLC

\* ------------------------------------------------------------------ bounds
MaxContacts == 2      \* contacts that can exist in the device directory
MaxTime     == 5      \* last instant Date.now() can return
MaxTasks    == 2      \* handlers in flight at the same time

\* --------------------------------------------------------------- constants
READY_MARKER == 1     \* the string '1' written to @nf:ready in import-all
Absent       == -1    \* AsyncStorage.getItem resolving to null
Missing      == -2    \* a payload timestamp that is undefined / not finite
Garbled      == -3    \* a stored @nf:ready string that parseInt turns into NaN
InitClock    == READY_MARKER + 1   \* epoch milliseconds are far above 1

Ids      == 1..MaxContacts
Fixes    == {<<10, 10>>, <<10, 20>>}          \* <<latitude, longitude>>
Statuses == {"granted", "denied", "undetermined"}
EmptyMap == <<>>

\* ------------------------------------------------------------------- state
VARIABLES
  \* device / environment
  directory,      \* contacts in the device directory, in enumeration order
  preexisting,    \* contacts that were in the directory at installation
  clock,          \* Date.now()
  permC,          \* contacts permission status held by the OS
  permL,          \* foreground location permission status held by the OS
  view,           \* the list projection: names and phone numbers of the
                  \* contacts, nativeCreationDates, searchQuery and
                  \* displayedContacts
  phoneDates,     \* ContactsCreationDateModule: the people of the address
                  \* book and the outcome of getPhoneDates
  eventsModule,   \* ContactsEventsModule: hasListeners, pendingContactId, the
                  \* location manager, the events sent
  \* AsyncStorage records (STORAGE_KEYS)
  sFirstSeen,     \* @nf:firstSeen
  sTags,          \* @nf:tags
  sPins,          \* @nf:pins
  sReady,         \* @nf:ready
  sChoice,        \* @nf:importChoice
  \* React state of App
  contactPermission,
  contacts,
  firstSeenTimestamps,
  tagsByContactId,
  locationPinsByContactId,
  isLoadingContacts,
  isRefreshing,
  showImportModal,
  importMode,
  \* handlers in flight
  tasks,
  \* bookkeeping
  last,           \* the handler that ran to completion in the last step
  written,        \* pins written by the two listeners since the launch
  seeded,         \* the directory when the first fetch called under a
                  \* persisted new-only choice completed
  captures,       \* per id, the ContactAddedWithLocation signals received in
                  \* a row since the launch (no other capture in between)
  pinned,         \* the ids a listener ever wrote a pin for
  unsaved,        \* per record, the ids whose update by a listener was not
                  \* persisted (the write failed) since the launch
  settled         \* valid: a fetch has completed, the directory is the one it
                  \* enumerated and no event happened since;
                  \* seq: that fetch ran with nothing else in flight; mode: its
                  \* importMode; solo: the handlers in flight are one chain
                  \* started with nothing else in flight, and no event since

envVars   == <<directory, preexisting, view, phoneDates, eventsModule, clock,
               permC, permL>>
storeVars == <<sFirstSeen, sTags, sPins, sReady, sChoice>>
memVars   == <<contactPermission, contacts, firstSeenTimestamps,
               tagsByContactId, locationPinsByContactId, isLoadingContacts,
               isRefreshing, showImportModal, importMode>>
histVars  == <<last, written, seeded, captures, pinned, unsaved, settled>>
vars      == <<envVars, storeVars, memVars, tasks, histVars>>

\* ----------------------------------------------------------------- helpers
Range(s) == {s[i] : i \in DOMAIN s}

\* obj[key] is truthy: the key is present and its value is not 0
Truthy(map, id) == id \in DOMAIN map /\ map[id] # 0

\* { ...map, [id]: v }
Put(map, id, v) ==
  [x \in (DOMAIN map) \cup {id} |-> IF x = id THEN v ELSE map[x]]

\* for (const id of ids) map[id] = v
PutAll(map, ids, v) ==
  [x \in (DOMAIN map) \cup ids |-> IF x \in ids THEN v ELSE map[x]]

\* a stamping that overwrites the entry of every id with now
StampEvery(map, ids, now) ==
  [x \in (DOMAIN map) \cup ids |-> IF x \in ids THEN now ELSE map[x]]

\* for (const c of data) if (!map[c.id]) map[c.id] = now
StampMissing(map, ids, now) ==
  [x \in (DOMAIN map) \cup ids |->
     IF x \in ids /\ ~Truthy(map, x) THEN now ELSE map[x]]

\* the ids the loop above pushed to newContactIds
Unstamped(map, ids) == {x \in ids : ~Truthy(map, x)}

\* array.filter(pred), keeping the array's order
RECURSIVE FilterSeq(_, _)
FilterSeq(s, keep) ==
  IF s = <<>> THEN <<>>
  ELSE IF Head(s) \in keep THEN <<Head(s)>> \o FilterSeq(Tail(s), keep)
       ELSE FilterSeq(Tail(s), keep)

\* parseInt(readyTimestamp): a stored number n stands for its decimal string
IsNumeric(s) == s >= 0
\* a filter that shows every stamped contact unless a numeric cutoff hides it
ShouldShowUnlessHidden(map, id, readyTimestamp) ==
  Truthy(map, id) /\ ~(IsNumeric(readyTimestamp) /\ map[id] <= readyTimestamp)

\* seenTime && seenTime > parseInt(readyTimestamp); a comparison with NaN is false
ShouldShow(map, id, readyTimestamp) ==
  Truthy(map, id) /\ IsNumeric(readyTimestamp) /\ map[id] > readyTimestamp

\* Number.isFinite(timestamp) ? timestamp : Date.now()
FinalTimestamp(timestamp, now) == IF timestamp # Missing THEN timestamp ELSE now

\* the timestamp of a payload: the native module's clock when it emitted the
\* event, or none
PayloadTimestamps(now) == {now, Missing}

\* the answers a permission request can resolve with: the user answers the
\* OS prompt once, later requests resolve with the status the OS holds
Answers(status) ==
  IF status = "undetermined" THEN {"granted", "denied"} ELSE {status}

\* status === 'undetermined' || canAskAgain (iOS: a denial cannot be asked again)
CanAskAgain(status) == status = "undetermined"

\* ------------------------------------------------------------------- tasks
NoEvent == [id |-> 0, lat |-> 0, lng |-> 0, timestamp |-> 0, at |-> 0]

Idle == [kind |-> "idle", pc |-> "-", mode |-> "unset", refresh |-> FALSE,
         origin |-> "-", data |-> <<>>, fs |-> EmptyMap, tags |-> EmptyMap,
         pins |-> EmptyMap, ready |-> Absent, ids |-> {}, choice |-> "unset",
         cutoff |-> 0, dir0 |-> <<>>, fresh |-> FALSE, ev |-> NoEvent,
         fault |-> FALSE, wrote |-> FALSE, lost |-> {}]

NoLast == [origin |-> "-", mode |-> "unset", path |-> "-", choice |-> "unset",
           data |-> <<>>, dir0 |-> <<>>, fresh |-> FALSE, ev |-> NoEvent,
           ids |-> {}, ready |-> Absent, lost |-> {}]

Slots == 1..MaxTasks
FreeSlots(tsk) == {s \in Slots : tsk[s].kind = "idle"}
HasFree(tsk) == FreeSlots(tsk) # {}
FreeSlot(tsk) == CHOOSE s \in FreeSlots(tsk) : \A r \in FreeSlots(tsk) : s <= r
Spawn(tsk, t) == [tsk EXCEPT ![FreeSlot(tsk)] = t]

\* initializeApp() called from the bootstrap effect; `mode` is the importMode
\* closed over by the fetchContactsFromDevice the effect was created with
InitTask(mode) == [Idle EXCEPT !.kind = "init", !.pc = "perm", !.mode = mode,
                               !.origin = "init"]

\* fetchContactsFromDevice(isRefreshAction) up to its first await
FetchTask(t, mode, refresh, origin) ==
  [t EXCEPT !.kind = "fetch", !.pc = "perm", !.mode = mode,
            !.refresh = refresh, !.origin = origin, !.choice = sChoice]

\* The bootstrap effect depends on fetchContactsFromDevice, which is
\* re-created whenever importMode changes: the effect then runs again and
\* calls initializeApp() with the new closure.
EffectOK(tsk, newMode) == newMode = importMode \/ HasFree(tsk)
WithEffect(tsk, newMode) ==
  IF newMode = importMode THEN tsk ELSE Spawn(tsk, InitTask(newMode))

Summary(t, path) == [origin |-> t.origin, mode |-> t.mode, path |-> path,
                     choice |-> t.choice, data |-> t.data, dir0 |-> t.dir0,
                     fresh |-> t.fresh, ev |-> t.ev, ids |-> t.ids,
                     ready |-> t.ready, lost |-> t.lost]

\* the ways a fetch ends after it enumerated the directory
Fetched == {"unset", "all", "seed", "newOnly"}

\* the list projection before anything is listed
\* Coordinates of the map region are counted in units of 1/10000 degree.
DegreeUnits == 10000

\* Denver, CO: 39.7392, -104.9903, deltas 0.5
FallbackRegion == [latitude |-> 397392, longitude |-> -1049903,
                   latitudeDelta |-> 5000, longitudeDelta |-> 5000]

NoView == [names |-> <<>>, phones |-> <<>>, nativeCreationDates |-> EmptyMap,
           searchQuery |-> <<>>, displayedContacts |-> <<>>,
           creationTime |-> EmptyMap, contactsWithLocationPins |-> <<>>,
           calculatedMapRegion |-> FallbackRegion]

\* no pending contact id, no date
Nil == 0

\* the creation-date module before it is called
NoPhoneDates == [people |-> <<>>, module |-> "present", status |-> "none",
                 rows |-> <<>>, native |-> TRUE, was |-> "none"]

\* the events module before a contact is added through it
NoEventsModule == [hasListeners |-> FALSE, pendingContactId |-> Nil,
                   locationManager |-> "none", authorization |-> "notDetermined",
                   presented |-> FALSE, stray |-> FALSE, signals |-> 0,
                   sent |-> <<>>, completed |-> <<>>, waiting |-> {},
                   after |-> FALSE]

\* every update of a listener was persisted
NoneUnsaved == [firstSeen |-> {}, pins |-> {}]

\* no completed fetch to compare with
Unsettled == [valid |-> FALSE, seq |-> FALSE, mode |-> "unset", solo |-> FALSE]

\* a step of a fetch or of the bootstrap that completes no handler
NotDone ==
  last' = NoLast /\ UNCHANGED <<written, seeded, captures, pinned, unsaved, settled>>

\* an event, or a step of a handler that is neither a fetch nor the bootstrap,
\* that completes no handler
NotDoneEvent ==
  /\ last' = NoLast /\ UNCHANGED <<written, seeded, captures, pinned, unsaved>>
  /\ settled' = Unsettled

\* no handler is in flight
Quiescent == \A s \in Slots : tasks[s].kind = "idle"

\* a refresh or a foreground re-activation: it starts a run, it writes nothing
NotDoneTrigger ==
  /\ last' = NoLast /\ UNCHANGED <<written, seeded, captures, pinned, unsaved>>
  /\ settled' = [settled EXCEPT !.solo = Quiescent]

\* the other handlers in flight
OthersIdle(s) == \A r \in Slots \ {s} : tasks[r].kind = "idle"

\* ------------------------------------------------ fetchContactsFromDevice
\* the lines of fetchContactsFromDevice that run synchronously at the call
LoadingAtCall(refresh) ==
  /\ isLoadingContacts' = (IF refresh THEN isLoadingContacts ELSE TRUE)
  /\ isRefreshing' = refresh

\* the finally block
LoadingCleared == isLoadingContacts' = FALSE /\ isRefreshing' = FALSE

Finish(s, path) ==
  /\ tasks' = [tasks EXCEPT ![s] = Idle]
  /\ last' = Summary(tasks[s], path)
  /\ seeded' = IF ~seeded.set /\ path \in Fetched /\ tasks[s].choice = "newOnly"
                 THEN [set |-> TRUE, dir |-> directory]
                 ELSE seeded
  /\ settled' = IF path \in Fetched
                  THEN [valid |-> tasks[s].data = directory,
                        seq |-> settled.solo,
                        mode |-> tasks[s].mode,
                        solo |-> settled.solo \/ OthersIdle(s)]
                  ELSE [settled EXCEPT !.solo = settled.solo \/ OthersIdle(s)]
  /\ UNCHANGED <<written, captures, pinned, unsaved>>

\* the records a fetch may fail to read (getItem rejects, or the stored blob
\* does not parse); only a record that holds something is worth failing
ReadFailures ==
  {ff \in SUBSET {"firstSeen", "tags", "pins"} :
     /\ ff # {} => clock < MaxTime
     /\ "firstSeen" \in ff => sFirstSeen # EmptyMap
     /\ "tags" \in ff => sTags # EmptyMap
     /\ "pins" \in ff => sPins # EmptyMap}

\* a loadJSON that lets the error of a failed read escape
LoadJSONRethrowing(value, fails, fallbackValue) ==
  [threw |-> fails, value |-> IF fails THEN fallbackValue ELSE value]

\* loadJSON(key, fallbackValue): try { value ? JSON.parse(value) : fallback }
\* catch { return fallback }.  An absent record and a stored '{}' both read
\* as the empty map.
LoadJSON(value, fails, fallbackValue) ==
  [threw |-> FALSE, value |-> IF fails THEN fallbackValue ELSE value]

\* saveJSON(key, data): AsyncStorage.setItem(...) without await or catch; what
\* the record holds afterwards
SaveJSON(stored, data, fails) == IF fails THEN stored ELSE data

\* a fetch that goes on to enumerate whatever the permission status is
FetchAfterPermNoReturn(s, status) ==
  /\ contactPermission' = status
  /\ tasks' = [tasks EXCEPT
       ![s].pc = "load", ![s].data = directory, ![s].fs = sFirstSeen,
       ![s].tags = sTags, ![s].pins = sPins]
  /\ NotDone
  /\ UNCHANGED <<directory, preexisting, view, phoneDates, eventsModule, clock, permL, storeVars, contacts,
                 firstSeenTimestamps, tagsByContactId,
                 locationPinsByContactId, isLoadingContacts, isRefreshing,
                 showImportModal, importMode>>

\* setContactPermission(status); if (!isGranted) return; else issue the
\* Promise.all of the directory enumeration and the three loadJSON reads
FetchAfterPerm(s, status) ==
  /\ contactPermission' = status
  /\ IF status # "granted"
       THEN /\ LoadingCleared
            /\ Finish(s, "denied")
            /\ UNCHANGED clock
       ELSE \E ff \in ReadFailures :
              LET firstSeenMap == LoadJSON(sFirstSeen, "firstSeen" \in ff, EmptyMap)
                  tagsMap      == LoadJSON(sTags, "tags" \in ff, EmptyMap)
                  pinsMap      == LoadJSON(sPins, "pins" \in ff, EmptyMap)
              IN
              /\ clock' = IF ff = {} THEN clock ELSE clock + 1
              /\ IF firstSeenMap.threw \/ tagsMap.threw \/ pinsMap.threw
                   THEN \* the Promise.all rejects: catch, finally
                        /\ LoadingCleared
                        /\ Finish(s, "failed")
                   ELSE /\ tasks' = [tasks EXCEPT
                             ![s].pc = "load",
                             ![s].data = directory,
                             ![s].fs = firstSeenMap.value,
                             ![s].tags = tagsMap.value,
                             ![s].pins = pinsMap.value,
                             ![s].fault = (ff # {}),
                             ![s].lost = ff]
                        /\ NotDone
                        /\ UNCHANGED <<isLoadingContacts, isRefreshing>>
  /\ UNCHANGED <<directory, preexisting, view, phoneDates, eventsModule, permL, storeVars, contacts,
                 firstSeenTimestamps, tagsByContactId,
                 locationPinsByContactId, showImportModal, importMode>>

\* Contacts.getPermissionsAsync() resolved
FetchPerm(s) ==
  /\ tasks[s].kind = "fetch" /\ tasks[s].pc = "perm"
  /\ IF permC # "granted" /\ (permC = "undetermined" \/ CanAskAgain(permC))
       THEN /\ tasks' = [tasks EXCEPT ![s].pc = "req"]
            /\ NotDone
            /\ UNCHANGED <<envVars, storeVars, memVars>>
       ELSE /\ FetchAfterPerm(s, permC)
            /\ UNCHANGED permC

\* Contacts.requestPermissionsAsync() resolved with the user's answer
FetchReq(s) ==
  /\ tasks[s].kind = "fetch" /\ tasks[s].pc = "req"
  /\ \E answer \in Answers(permC) :
       /\ permC' = answer
       /\ FetchAfterPerm(s, answer)

\* a fetch that pins every enumerated contact that has no pin
FetchLoadedPinning(s) ==
  /\ tasks[s].kind = "fetch" /\ tasks[s].pc = "load"
  /\ tagsByContactId' = tasks[s].tags
  /\ \E fix \in Fixes :
       locationPinsByContactId' =
         [x \in (DOMAIN tasks[s].pins) \cup Range(tasks[s].data) |->
            IF x \in DOMAIN tasks[s].pins THEN tasks[s].pins[x]
            ELSE [latitude |-> fix[1], longitude |-> fix[2], timestamp |-> clock]]
  /\ tasks' = [tasks EXCEPT ![s].pc = "ready", ![s].ready = sReady]
  /\ NotDone
  /\ UNCHANGED <<envVars, storeVars, contactPermission, contacts,
                 firstSeenTimestamps, isLoadingContacts, isRefreshing,
                 showImportModal, importMode>>

\* the Promise.all resolved: publish tags and pins, then read @nf:ready
FetchLoaded(s) ==
  /\ tasks[s].kind = "fetch" /\ tasks[s].pc = "load"
  /\ tagsByContactId' = tasks[s].tags
  /\ locationPinsByContactId' = tasks[s].pins
  /\ tasks' = [tasks EXCEPT
       ![s].pc = "ready", ![s].ready = sReady,
       ![s].wrote = (tasks[s].tags # tagsByContactId
                     \/ tasks[s].pins # locationPinsByContactId)]
  /\ NotDone
  /\ UNCHANGED <<envVars, storeVars, contactPermission, contacts,
                 firstSeenTimestamps, isLoadingContacts, isRefreshing,
                 showImportModal, importMode>>

\* catch (error) { console.error(...) } finally { clear both flags }
FetchCaught(s) ==
  /\ clock < MaxTime
  /\ clock' = clock + 1
  /\ LoadingCleared
  /\ Finish(s, "failed")
  /\ UNCHANGED <<directory, preexisting, view, phoneDates, eventsModule, permC, permL, storeVars,
                 contactPermission, contacts, firstSeenTimestamps,
                 tagsByContactId, locationPinsByContactId, showImportModal,
                 importMode>>

\* the Promise.all rejected: Contacts.getContactsAsync failed
FetchFailed(s) ==
  /\ tasks[s].kind = "fetch" /\ tasks[s].pc = "load"
  /\ FetchCaught(s)

\* AsyncStorage.getItem(STORAGE_KEYS.READY) rejected, after the tags and the
\* pins were published
FetchReadyFailed(s) ==
  /\ tasks[s].kind = "fetch" /\ tasks[s].pc = "ready"
  /\ FetchCaught(s)

\* importMode === 'all': stamp the contacts that have no entry, show all
FetchApplyAll(s) ==
  LET t  == tasks[s]
      wc == StampMissing(t.fs, Range(t.data), clock)
      newContactIds == Unstamped(t.fs, Range(t.data))
  IN
  /\ t.kind = "fetch" /\ t.pc = "ready" /\ t.mode = "all"
  /\ IF t.ready = Absent
       THEN \* await AsyncStorage.setItem(READY, '1')
            /\ sReady' = READY_MARKER
            /\ tasks' = [tasks EXCEPT ![s].pc = "marked", ![s].fs = wc,
                                      ![s].ids = newContactIds]
            /\ NotDone
            /\ UNCHANGED <<sFirstSeen, firstSeenTimestamps, contacts,
                           isLoadingContacts, isRefreshing>>
       ELSE /\ sFirstSeen' = (IF newContactIds # {} THEN wc ELSE sFirstSeen)
            /\ firstSeenTimestamps' = wc
            /\ contacts' = t.data
            /\ LoadingCleared
            /\ Finish(s, "all")
            /\ UNCHANGED sReady
  /\ UNCHANGED <<envVars, sTags, sPins, sChoice, contactPermission,
                 tagsByContactId, locationPinsByContactId, showImportModal,
                 importMode>>

\* import-all after the write of the '1' marker resolved
FetchAllMarked(s) ==
  LET t == tasks[s] IN
  /\ t.kind = "fetch" /\ t.pc = "marked"
  /\ sFirstSeen' = (IF t.ids # {} THEN t.fs ELSE sFirstSeen)
  /\ firstSeenTimestamps' = t.fs
  /\ contacts' = t.data
  /\ LoadingCleared
  /\ Finish(s, "all")
  /\ UNCHANGED <<envVars, sTags, sPins, sReady, sChoice, contactPermission,
                 tagsByContactId, locationPinsByContactId, showImportModal,
                 importMode>>

\* importMode === 'newOnly' and no @nf:ready: stamp every contact with the
\* cutoff and write the cutoff
FetchSeed(s) ==
  LET t == tasks[s]
      cutoffTime == clock
  IN
  /\ t.kind = "fetch" /\ t.pc = "ready" /\ t.mode = "newOnly"
  /\ t.ready = Absent
  /\ sReady' = cutoffTime
  /\ tasks' = [tasks EXCEPT ![s].pc = "seeded",
                            ![s].fs = PutAll(t.fs, Range(t.data), cutoffTime)]
  /\ NotDone
  /\ UNCHANGED <<envVars, sFirstSeen, sTags, sPins, sChoice, memVars>>

\* new-only first run after the write of the cutoff resolved
FetchSeeded(s) ==
  LET t == tasks[s] IN
  /\ t.kind = "fetch" /\ t.pc = "seeded"
  /\ sFirstSeen' = t.fs
  /\ firstSeenTimestamps' = t.fs
  /\ contacts' = <<>>
  /\ LoadingCleared
  /\ Finish(s, "seed")
  /\ UNCHANGED <<envVars, sTags, sPins, sReady, sChoice, contactPermission,
                 tagsByContactId, locationPinsByContactId, showImportModal,
                 importMode>>

\* importMode === 'newOnly' with @nf:ready present: stamp the contacts that
\* have no entry, show those seen after the cutoff
FetchApplyNewOnly(s) ==
  LET t  == tasks[s]
      wc == StampMissing(t.fs, Range(t.data), clock)
      newContactIds == Unstamped(t.fs, Range(t.data))
  IN
  /\ t.kind = "fetch" /\ t.pc = "ready" /\ t.mode = "newOnly"
  /\ t.ready # Absent
  /\ sFirstSeen' = (IF newContactIds # {} THEN wc ELSE sFirstSeen)
  /\ firstSeenTimestamps' = wc
  /\ contacts' = FilterSeq(t.data,
                           {id \in Range(t.data) : ShouldShow(wc, id, t.ready)})
  /\ LoadingCleared
  /\ Finish(s, "newOnly")
  /\ UNCHANGED <<envVars, sTags, sPins, sReady, sChoice, contactPermission,
                 tagsByContactId, locationPinsByContactId, showImportModal,
                 importMode>>

\* no import mode in the closure: show the directory, stamp nothing
FetchApplyUnset(s) ==
  LET t == tasks[s] IN
  /\ t.kind = "fetch" /\ t.pc = "ready" /\ t.mode = "unset"
  /\ firstSeenTimestamps' = t.fs
  /\ contacts' = t.data
  /\ LoadingCleared
  /\ Finish(s, "unset")
  /\ UNCHANGED <<envVars, storeVars, contactPermission, tagsByContactId,
                 locationPinsByContactId, showImportModal, importMode>>

\* ----------------------------------------------------------- initializeApp
\* setContactPermission(status); without the permission hide the modal and
\* stop, else query the location permission
InitAfterPerm(s, status) ==
  /\ contactPermission' = status
  /\ IF status # "granted"
       THEN /\ showImportModal' = FALSE
            /\ Finish(s, "denied")
       ELSE /\ tasks' = [tasks EXCEPT ![s].pc = "loc"]
            /\ NotDone
            /\ UNCHANGED showImportModal
  /\ UNCHANGED <<directory, preexisting, view, phoneDates, eventsModule, clock, permL, storeVars, contacts,
                 firstSeenTimestamps, tagsByContactId,
                 locationPinsByContactId, isLoadingContacts, isRefreshing,
                 importMode>>

\* Contacts.getPermissionsAsync() resolved
InitPerm(s) ==
  /\ tasks[s].kind = "init" /\ tasks[s].pc = "perm"
  /\ IF permC # "granted" /\ (permC = "undetermined" \/ CanAskAgain(permC))
       THEN /\ tasks' = [tasks EXCEPT ![s].pc = "req"]
            /\ NotDone
            /\ UNCHANGED <<envVars, storeVars, memVars>>
       ELSE /\ InitAfterPerm(s, permC)
            /\ UNCHANGED permC

\* Contacts.requestPermissionsAsync() resolved with the user's answer
InitReq(s) ==
  /\ tasks[s].kind = "init" /\ tasks[s].pc = "req"
  /\ \E answer \in Answers(permC) :
       /\ permC' = answer
       /\ InitAfterPerm(s, answer)

\* Location.getForegroundPermissionsAsync() resolved: ask if allowed to,
\* else read @nf:importChoice
InitLoc(s) ==
  /\ tasks[s].kind = "init" /\ tasks[s].pc = "loc"
  /\ tasks' = IF permL # "granted" /\ CanAskAgain(permL)
                THEN [tasks EXCEPT ![s].pc = "locreq"]
                ELSE [tasks EXCEPT ![s].pc = "choice", ![s].choice = sChoice]
  /\ NotDone
  /\ UNCHANGED <<envVars, storeVars, memVars>>

\* Location.requestForegroundPermissionsAsync() resolved, then read the choice
InitLocReq(s) ==
  /\ tasks[s].kind = "init" /\ tasks[s].pc = "locreq"
  /\ \E answer \in Answers(permL) : permL' = answer
  /\ tasks' = [tasks EXCEPT ![s].pc = "choice", ![s].choice = sChoice]
  /\ NotDone
  /\ UNCHANGED <<directory, preexisting, view, phoneDates, eventsModule, clock, permC, storeVars, memVars>>

\* the read of @nf:importChoice resolved: setImportMode(saved), then show the
\* modal or call the fetchContactsFromDevice of this effect's closure
InitChoice(s) ==
  LET t == tasks[s]
      savedImportChoice == t.choice
  IN
  /\ t.kind = "init" /\ t.pc = "choice"
  /\ importMode' = savedImportChoice
  /\ IF savedImportChoice = "unset"
       THEN /\ showImportModal' = TRUE
            /\ tasks' = WithEffect([tasks EXCEPT ![s] = Idle], savedImportChoice)
            /\ last' = Summary(t, "modal")
            /\ settled' = [settled EXCEPT
                             !.solo = IF savedImportChoice = importMode
                                        THEN settled.solo \/ OthersIdle(s)
                                        ELSE FALSE]
            /\ UNCHANGED <<written, seeded, captures, pinned, unsaved>>
            /\ UNCHANGED <<isLoadingContacts, isRefreshing>>
       ELSE /\ EffectOK(tasks, savedImportChoice)
            /\ LoadingAtCall(FALSE)
            /\ tasks' = WithEffect(
                 [tasks EXCEPT ![s] = FetchTask(t, t.mode, FALSE, t.origin)],
                 savedImportChoice)
            /\ last' = NoLast
            /\ settled' = [settled EXCEPT
                             !.solo = settled.solo /\ savedImportChoice = importMode]
            /\ UNCHANGED <<written, seeded, captures, pinned, unsaved>>
            /\ UNCHANGED showImportModal
  /\ UNCHANGED <<envVars, storeVars, contactPermission, contacts,
                 firstSeenTimestamps, tagsByContactId,
                 locationPinsByContactId>>

\* ------------------------------------------------- import mode selection
\* 'Import existing' pressed: write the choice
ChooseAll ==
  /\ contactPermission = "granted" /\ showImportModal
  /\ HasFree(tasks) /\ clock < MaxTime
  /\ sChoice' = "all"
  /\ tasks' = Spawn(tasks, [Idle EXCEPT !.kind = "chooseAll", !.pc = "saved",
                                        !.mode = importMode,
                                        !.origin = "chooseAll",
                                        !.dir0 = directory,
                                        !.fresh = (sFirstSeen = EmptyMap)])
  /\ clock' = clock + 1
  /\ NotDoneEvent
  /\ UNCHANGED <<directory, preexisting, view, phoneDates, eventsModule, permC, permL, sFirstSeen, sTags, sPins, sReady, memVars>>

\* the write resolved: setImportMode('all'), hide the modal, call the
\* fetchContactsFromDevice of the render the button belongs to
ChooseAllSaved(s) ==
  LET t == tasks[s] IN
  /\ t.kind = "chooseAll" /\ t.pc = "saved"
  /\ EffectOK(tasks, "all")
  /\ importMode' = "all"
  /\ showImportModal' = FALSE
  /\ LoadingAtCall(FALSE)
  /\ tasks' = WithEffect(
       [tasks EXCEPT ![s] = FetchTask(t, t.mode, FALSE, "chooseAll")], "all")
  /\ NotDoneEvent
  /\ UNCHANGED <<envVars, storeVars, contactPermission, contacts,
                 firstSeenTimestamps, tagsByContactId,
                 locationPinsByContactId>>

\* 'Only new going forward' pressed: take the cutoff, write the choice
ChooseNewOnly ==
  /\ contactPermission = "granted" /\ showImportModal
  /\ HasFree(tasks) /\ clock < MaxTime
  /\ sChoice' = "newOnly"
  /\ tasks' = Spawn(tasks, [Idle EXCEPT !.kind = "chooseNewOnly",
                                        !.pc = "choiceSaved",
                                        !.mode = importMode,
                                        !.origin = "chooseNewOnly",
                                        !.cutoff = clock + 1,
                                        !.dir0 = directory,
                                        !.fresh = (sFirstSeen = EmptyMap)])
  /\ clock' = clock + 1
  /\ NotDoneEvent
  /\ UNCHANGED <<directory, preexisting, view, phoneDates, eventsModule, permC, permL, sFirstSeen, sTags, sPins, sReady, memVars>>

\* the choice is written: write the cutoff to @nf:ready
ChooseNewOnlyReady(s) ==
  LET t == tasks[s] IN
  /\ t.kind = "chooseNewOnly" /\ t.pc = "choiceSaved"
  /\ sReady' = t.cutoff
  /\ tasks' = [tasks EXCEPT ![s].pc = "readySaved"]
  /\ NotDoneEvent
  /\ UNCHANGED <<envVars, sFirstSeen, sTags, sPins, sChoice, memVars>>

\* the cutoff is written: loadJSON(FIRST_SEEN)
ChooseNewOnlyLoad(s) ==
  LET t == tasks[s] IN
  /\ t.kind = "chooseNewOnly" /\ t.pc = "readySaved"
  /\ tasks' = [tasks EXCEPT ![s].pc = "loaded", ![s].fs = sFirstSeen]
  /\ NotDoneEvent
  /\ UNCHANGED <<envVars, storeVars, memVars>>

\* the ledger is read: enumerate the directory
ChooseNewOnlyEnum(s) ==
  LET t == tasks[s] IN
  /\ t.kind = "chooseNewOnly" /\ t.pc = "loaded"
  /\ tasks' = [tasks EXCEPT ![s].pc = "enumerated", ![s].data = directory]
  /\ NotDoneEvent
  /\ UNCHANGED <<envVars, storeVars, memVars>>

\* stamp every contact with the cutoff, save, setImportMode('newOnly'), hide
\* the modal, call the fetchContactsFromDevice of the button's render
ChooseNewOnlyStamp(s) ==
  LET t == tasks[s] IN
  /\ t.kind = "chooseNewOnly" /\ t.pc = "enumerated"
  /\ EffectOK(tasks, "newOnly")
  /\ sFirstSeen' = PutAll(t.fs, Range(t.data), t.cutoff)
  /\ importMode' = "newOnly"
  /\ showImportModal' = FALSE
  /\ LoadingAtCall(FALSE)
  /\ tasks' = WithEffect(
       [tasks EXCEPT ![s] = FetchTask(t, t.mode, FALSE, "chooseNewOnly")],
       "newOnly")
  /\ NotDoneEvent
  /\ UNCHANGED <<envVars, sTags, sPins, sReady, sChoice, contactPermission,
                 contacts, firstSeenTimestamps, tagsByContactId,
                 locationPinsByContactId>>

\* ------------------------------------------------ ContactsChanged listener
\* the signal arrives: enumerate the directory.  newContactIds is the
\* enumeration minus the `contacts` of the render the listener belongs to.
ContactsChanged ==
  /\ HasFree(tasks) /\ clock < MaxTime
  /\ tasks' = Spawn(tasks, [Idle EXCEPT !.kind = "changed", !.pc = "enum",
                                        !.mode = importMode,
                                        !.origin = "changed",
                                        !.data = directory,
                                        !.ids = Range(directory) \ Range(contacts)])
  /\ clock' = clock + 1
  /\ NotDoneEvent
  /\ UNCHANGED <<directory, preexisting, view, phoneDates, eventsModule, permC, permL, storeVars, memVars>>

\* the enumeration resolved: nothing to do without new ids, else query the
\* location permission
ChangedEnum(s) ==
  LET t == tasks[s] IN
  /\ t.kind = "changed" /\ t.pc = "enum"
  /\ IF permC # "granted"
       THEN Finish(s, "threw")     \* getContactsAsync rejected, nothing catches it
       ELSE IF t.ids = {}
       THEN Finish(s, "nonew")
       ELSE /\ tasks' = [tasks EXCEPT ![s].pc = "loc"]
            /\ NotDoneEvent
  /\ UNCHANGED <<envVars, storeVars, memVars>>

\* a handler that requests a fix whatever the location permission is
ChangedLocAlwaysFix(s) ==
  /\ tasks[s].kind = "changed" /\ tasks[s].pc = "loc"
  /\ tasks' = [tasks EXCEPT ![s].pc = "fix"]
  /\ NotDoneEvent
  /\ UNCHANGED <<envVars, storeVars, memVars>>

\* the permission query resolved: request a fix when granted, else refetch
ChangedLoc(s) ==
  LET t == tasks[s] IN
  /\ t.kind = "changed" /\ t.pc = "loc"
  /\ IF permL = "granted"
       THEN /\ tasks' = [tasks EXCEPT ![s].pc = "fix"]
            /\ UNCHANGED <<isLoadingContacts, isRefreshing>>
       ELSE /\ tasks' = [tasks EXCEPT ![s] = FetchTask(t, t.mode, TRUE, "changed")]
            /\ LoadingAtCall(TRUE)
  /\ NotDoneEvent
  /\ UNCHANGED <<envVars, storeVars, contactPermission, contacts,
                 firstSeenTimestamps, tagsByContactId,
                 locationPinsByContactId, showImportModal, importMode>>

\* the fix resolved: pin every new id, stamp the new ids that have no
\* first-seen entry, save both maps, refetch
ChangedFix(s) ==
  LET t == tasks[s] IN
  /\ t.kind = "changed" /\ t.pc = "fix"
  /\ \E fix \in Fixes :
       LET timestamp   == clock
           pin         == [latitude |-> fix[1], longitude |-> fix[2],
                           timestamp |-> timestamp]
           updatedPins == PutAll(locationPinsByContactId, t.ids, pin)
           updatedTimestamps == StampMissing(firstSeenTimestamps, t.ids, timestamp)
       IN
       /\ locationPinsByContactId' = updatedPins
       /\ sPins' = updatedPins
       /\ firstSeenTimestamps' = updatedTimestamps
       /\ sFirstSeen' = updatedTimestamps
       /\ tasks' = [tasks EXCEPT ![s] =
            FetchTask([t EXCEPT !.ev = [id |-> 0, lat |-> fix[1], lng |-> fix[2],
                                        timestamp |-> timestamp, at |-> clock]],
                      t.mode, TRUE, "changed")]
       /\ written' = PutAll(written, t.ids, pin)
  /\ captures' = [x \in (DOMAIN captures) \ t.ids |-> captures[x]]
  /\ pinned' = pinned \cup t.ids /\ UNCHANGED unsaved
  /\ LoadingAtCall(TRUE)
  /\ last' = NoLast /\ settled' = Unsettled /\ UNCHANGED seeded
  /\ UNCHANGED <<envVars, sTags, sReady, sChoice, contactPermission, contacts,
                 tagsByContactId, showImportModal, importMode>>

\* the permission query or the fix threw: log, refetch
ChangedFixFailed(s) ==
  LET t == tasks[s] IN
  /\ t.kind = "changed" /\ t.pc \in {"loc", "fix"}
  /\ tasks' = [tasks EXCEPT ![s] = FetchTask(t, t.mode, TRUE, "changed")]
  /\ LoadingAtCall(TRUE)
  /\ NotDoneEvent
  /\ UNCHANGED <<envVars, storeVars, contactPermission, contacts,
                 firstSeenTimestamps, tagsByContactId,
                 locationPinsByContactId, showImportModal, importMode>>

\* Location.getCurrentPositionAsync never resolves: the handler never runs
\* again, so neither its writes nor its refetch happen
ChangedFixHangs(s) ==
  LET t == tasks[s] IN
  /\ t.kind = "changed" /\ t.pc = "fix"
  /\ Finish(s, "hung")
  /\ UNCHANGED <<envVars, storeVars, memVars>>

\* the writes of a listener that may fail: setItem rejects, and nothing
\* awaits or catches it
WriteFailures ==
  {ff \in SUBSET {"firstSeen", "pins"} : ff # {} => clock + 1 < MaxTime}

\* --------------------------------------- ContactAddedWithLocation listener
\* overwrite the first-seen entry and the pin of the id, save both, refetch.
\* The native module emits the signal for a contact created in its add-contact
\* flow, so the id is one of a contact created after installation.
ContactAddedWithLocation ==
  /\ HasFree(tasks) /\ clock < MaxTime
  /\ \E id \in Range(directory) \ preexisting, fix \in Fixes,
        timestamp \in PayloadTimestamps(clock + 1),
        ff \in WriteFailures :
       LET finalTimestamp == FinalTimestamp(timestamp, clock + 1)
           updated     == Put(firstSeenTimestamps, id, finalTimestamp)
           updatedPins == Put(locationPinsByContactId, id,
                              [latitude |-> fix[1], longitude |-> fix[2],
                               timestamp |-> finalTimestamp])
       IN
       /\ firstSeenTimestamps' = updated
       /\ sFirstSeen' = SaveJSON(sFirstSeen, updated, "firstSeen" \in ff)
       /\ locationPinsByContactId' = updatedPins
       /\ sPins' = SaveJSON(sPins, updatedPins, "pins" \in ff)
       /\ unsaved' = [firstSeen |-> unsaved.firstSeen \cup
                                      (IF "firstSeen" \in ff THEN {id} ELSE {}),
                      pins |-> unsaved.pins \cup
                                 (IF "pins" \in ff THEN {id} ELSE {})]
       /\ clock' = clock + 1 + (IF ff = {} THEN 0 ELSE 1)
       /\ tasks' = Spawn(tasks,
            FetchTask([Idle EXCEPT !.ev = [id |-> id, lat |-> fix[1],
                                           lng |-> fix[2],
                                           timestamp |-> timestamp,
                                           at |-> clock + 1]],
                      importMode, TRUE, "added"))
       /\ written' = Put(written, id, updatedPins[id])
       /\ captures' = Put(captures, id,
                          (IF id \in DOMAIN captures THEN captures[id] ELSE 0) + 1)
       /\ pinned' = pinned \cup {id}
  /\ LoadingAtCall(TRUE)
  /\ last' = NoLast /\ settled' = Unsettled /\ UNCHANGED seeded
  /\ UNCHANGED <<directory, preexisting, view, phoneDates, eventsModule, permC, permL, sTags, sReady, sChoice, contactPermission, contacts,
                 tagsByContactId, showImportModal, importMode>>

\* ---------------------------------------------------------------- tag edits
\* A string is the sequence of its characters.
WhiteSpace == {" "}

RECURSIVE TrimStart(_)
TrimStart(str) ==
  IF str # <<>> /\ Head(str) \in WhiteSpace THEN TrimStart(Tail(str)) ELSE str

RECURSIVE TrimEnd(_)
TrimEnd(str) ==
  IF str # <<>> /\ str[Len(str)] \in WhiteSpace
  THEN TrimEnd(SubSeq(str, 1, Len(str) - 1))
  ELSE str

\* String.prototype.trim
Trim(str) == TrimEnd(TrimStart(str))

\* a de-duplication that keeps every element
UniqueKeepingAll(arr) == arr

\* Array.from(new Set(arr)): the first occurrence of every element, in order
RECURSIVE Unique(_)
Unique(arr) ==
  IF arr = <<>> THEN <<>>
  ELSE LET rest == Unique(SubSeq(arr, 1, Len(arr) - 1))
           x    == arr[Len(arr)]
       IN IF x \in Range(rest) THEN rest ELSE Append(rest, x)

\* array.filter(tag => tag !== tagToRemove)
RECURSIVE Without(_, _)
Without(arr, tagToRemove) ==
  IF arr = <<>> THEN <<>>
  ELSE IF Head(arr) = tagToRemove THEN Without(Tail(arr), tagToRemove)
       ELSE <<Head(arr)>> \o Without(Tail(arr), tagToRemove)

\* previousTags[contactId] || []
TagsOf(map, contactId) ==
  IF contactId \in DOMAIN map THEN map[contactId] ELSE <<>>

\* what the user can type into the tag editor
TagTexts == {<<>>, <<" ">>, <<"v">>, <<" ", "v", " ">>, <<"w">>}

\* the setItem of a tag edit can fail; the failure is an event of its own
TagWriteFailures == {FALSE} \cup (IF clock + 1 < MaxTime THEN {TRUE} ELSE {})

\* the rows of the list can be touched: the main UI is rendered and the
\* import modal does not cover it
RowsShown == contactPermission = "granted" /\ ~showImportModal

\* history: the tag edit that just ran, on which contact, and what it found
TagEdited(handler, contactId, found) ==
  /\ last' = [NoLast EXCEPT !.origin = handler, !.path = found,
                            !.ids = {contactId}]
  /\ settled' = Unsettled
  /\ UNCHANGED <<written, seeded, captures, pinned, unsaved>>

\* addTagToContact(contact.id, tagInputText), from the tag editor of a row
AddTag(contactId, tagText, fails) ==
  /\ RowsShown /\ clock < MaxTime
  /\ contactId \in Range(contacts)
  /\ LET trimmedTag == Trim(tagText) IN
     IF trimmedTag = <<>>
     THEN /\ ~fails
          /\ UNCHANGED <<tagsByContactId, sTags>>
     ELSE LET existingTags == TagsOf(tagsByContactId, contactId)
              updatedTags  == Unique(Append(existingTags, trimmedTag))
              newTagState  == Put(tagsByContactId, contactId, updatedTags)
          IN /\ tagsByContactId' = newTagState
             /\ sTags' = SaveJSON(sTags, newTagState, fails)
  /\ clock' = clock + 1 + (IF fails THEN 1 ELSE 0)
  /\ TagEdited("addTag", contactId,
               IF Trim(tagText) = <<>> THEN "blank"
               ELSE IF Trim(tagText) \in Range(TagsOf(tagsByContactId, contactId))
                    THEN "present" ELSE "added")
  /\ UNCHANGED <<directory, preexisting, view, phoneDates, eventsModule, permC, permL, sFirstSeen, sPins,
                 sReady, sChoice, contactPermission, contacts,
                 firstSeenTimestamps, locationPinsByContactId,
                 isLoadingContacts, isRefreshing, showImportModal, importMode,
                 tasks>>

AddTagToContact ==
  \E contactId \in Range(contacts), tagText \in TagTexts,
     fails \in TagWriteFailures : AddTag(contactId, tagText, fails)

\* removeTagFromContact(contact.id, tag), from a long press on a tag chip
RemoveTag(contactId, tagToRemove, fails) ==
  /\ RowsShown /\ clock < MaxTime
  /\ contactId \in Range(contacts)
  /\ tagToRemove \in Range(TagsOf(tagsByContactId, contactId))
  /\ LET filteredTags == Without(TagsOf(tagsByContactId, contactId),
                                 tagToRemove)
         newTagState  == Put(tagsByContactId, contactId, filteredTags)
     IN /\ tagsByContactId' = newTagState
        /\ sTags' = SaveJSON(sTags, newTagState, fails)
  /\ clock' = clock + 1 + (IF fails THEN 1 ELSE 0)
  /\ TagEdited("removeTag", contactId, "removed")
  /\ UNCHANGED <<directory, preexisting, view, phoneDates, eventsModule, permC, permL, sFirstSeen, sPins,
                 sReady, sChoice, contactPermission, contacts,
                 firstSeenTimestamps, locationPinsByContactId,
                 isLoadingContacts, isRefreshing, showImportModal, importMode,
                 tasks>>

RemoveTagFromContact ==
  \E contactId \in Range(contacts), fails \in TagWriteFailures :
    \E tagToRemove \in Range(TagsOf(tagsByContactId, contactId)) :
      RemoveTag(contactId, tagToRemove, fails)

\* ---------------------------------------------------------- list projection
Digits == {"0", "1", "2", "3", "4", "5", "6", "7", "8", "9"}

\* (phoneNumber.match(/\d+/g) || []).join(''); a missing number is ''
RECURSIVE ExtractDigitsOnly(_)
ExtractDigitsOnly(phoneNumber) ==
  IF phoneNumber = <<>> THEN <<>>
  ELSE IF Head(phoneNumber) \in Digits
       THEN <<Head(phoneNumber)>> \o ExtractDigitsOnly(Tail(phoneNumber))
       ELSE ExtractDigitsOnly(Tail(phoneNumber))

\* a resolver that looks at the ledger first
GetContactCreationTimeLedgerFirst(contact, nativeDates, firstSeen) ==
  LET phoneDigits == ExtractDigitsOnly(contact.phone) IN
  IF Truthy(firstSeen, contact.id) THEN firstSeen[contact.id]
  ELSE IF phoneDigits # <<>> /\ Truthy(nativeDates, phoneDigits)
       THEN nativeDates[phoneDigits]
       ELSE 0

\* getContactCreationTime(contact): 0 is "unknown"
GetContactCreationTime(contact, nativeDates, firstSeen) ==
  LET phoneDigits == ExtractDigitsOnly(contact.phone) IN
  IF phoneDigits # <<>> /\ Truthy(nativeDates, phoneDigits)
  THEN nativeDates[phoneDigits]
  ELSE IF Truthy(firstSeen, contact.id) THEN firstSeen[contact.id]
       ELSE 0

UpperLetters == <<"A", "B">>
LowerLetters == <<"a", "b">>

LowerChar(c) ==
  IF \E i \in DOMAIN UpperLetters : UpperLetters[i] = c
  THEN LowerLetters[CHOOSE i \in DOMAIN UpperLetters : UpperLetters[i] = c]
  ELSE c

\* String.prototype.toLowerCase
ToLowerCase(str) == [i \in 1..Len(str) |-> LowerChar(str[i])]

\* String.prototype.includes
Includes(str, sub) ==
  \E i \in 0..(Len(str) - Len(sub)) : SubSeq(str, i + 1, i + Len(sub)) = sub

\* the order of the characters in the default collation, case aside
CollationOrder == <<" ", "a", "b">>
CollationRank(c) ==
  CHOOSE i \in DOMAIN CollationOrder : CollationOrder[i] = LowerChar(c)

\* first level of the comparison: the letters, case aside; a string precedes
\* every string it is a proper prefix of, so '' precedes every other string
RECURSIVE ComparePrimary(_, _)
ComparePrimary(x, y) ==
  IF x = <<>> THEN (IF y = <<>> THEN 0 ELSE -1)
  ELSE IF y = <<>> THEN 1
  ELSE IF CollationRank(Head(x)) < CollationRank(Head(y)) THEN -1
  ELSE IF CollationRank(Head(x)) > CollationRank(Head(y)) THEN 1
  ELSE ComparePrimary(Tail(x), Tail(y))

\* last level: strings with the same letters, lower case first
RECURSIVE CompareCase(_, _)
CompareCase(x, y) ==
  IF x = <<>> \/ y = <<>> THEN 0
  ELSE IF Head(x) = Head(y) THEN CompareCase(Tail(x), Tail(y))
  ELSE IF Head(x) = LowerChar(Head(x)) THEN -1 ELSE 1

\* String.prototype.localeCompare
LocaleCompare(x, y) ==
  IF ComparePrimary(x, y) # 0 THEN ComparePrimary(x, y) ELSE CompareCase(x, y)

\* a comparator that puts the older contact first
CompareContactsOldestFirst(contactA, contactB, nativeDates, firstSeen) ==
  LET timeA == GetContactCreationTime(contactA, nativeDates, firstSeen)
      timeB == GetContactCreationTime(contactB, nativeDates, firstSeen)
      hasTimeA == timeA > 0
      hasTimeB == timeB > 0
  IN IF hasTimeA /\ hasTimeB THEN timeA - timeB
     ELSE IF hasTimeA /\ ~hasTimeB THEN -1
     ELSE IF ~hasTimeA /\ hasTimeB THEN 1
     ELSE LocaleCompare(contactA.name, contactB.name)

\* the comparator of filteredContacts.sort; a missing name is ''
CompareContacts(contactA, contactB, nativeDates, firstSeen) ==
  LET timeA == GetContactCreationTime(contactA, nativeDates, firstSeen)
      timeB == GetContactCreationTime(contactB, nativeDates, firstSeen)
      hasTimeA == timeA > 0
      hasTimeB == timeB > 0
  IN IF hasTimeA /\ hasTimeB THEN timeB - timeA
     ELSE IF hasTimeA /\ ~hasTimeB THEN -1
     ELSE IF ~hasTimeA /\ hasTimeB THEN 1
     ELSE LocaleCompare(contactA.name, contactB.name)

\* Array.prototype.sort is stable: an element is placed before the first
\* element it compares less than
RECURSIVE InsertContact(_, _, _, _)
InsertContact(sorted, contact, nativeDates, firstSeen) ==
  IF sorted = <<>> THEN <<contact>>
  ELSE IF CompareContacts(contact, Head(sorted), nativeDates, firstSeen) < 0
       THEN <<contact>> \o sorted
       ELSE <<Head(sorted)>> \o
            InsertContact(Tail(sorted), contact, nativeDates, firstSeen)

RECURSIVE SortContacts(_, _, _)
SortContacts(list, nativeDates, firstSeen) ==
  IF list = <<>> THEN <<>>
  ELSE InsertContact(
         SortContacts(SubSeq(list, 1, Len(list) - 1), nativeDates, firstSeen),
         list[Len(list)], nativeDates, firstSeen)

\* a search that does not trim the query
MatchesQueryUntrimmed(contact, searchQuery, tags) ==
  LET queryLowercase == ToLowerCase(searchQuery)
      nameMatch == Includes(ToLowerCase(contact.name), queryLowercase)
      tagMatch  == \E tag \in Range(TagsOf(tags, contact.id)) :
                     Includes(ToLowerCase(tag), queryLowercase)
  IN queryLowercase # <<>> => (nameMatch \/ tagMatch)

\* the predicate of contacts.filter; with an empty queryLowercase every
\* contact is kept (contacts.slice())
MatchesQuery(contact, searchQuery, tags) ==
  LET queryLowercase == ToLowerCase(Trim(searchQuery))
      nameMatch == Includes(ToLowerCase(contact.name), queryLowercase)
      tagMatch  == \E tag \in Range(TagsOf(tags, contact.id)) :
                     Includes(ToLowerCase(tag), queryLowercase)
  IN queryLowercase # <<>> => (nameMatch \/ tagMatch)

RECURSIVE FilterContacts(_, _, _)
FilterContacts(list, searchQuery, tags) ==
  IF list = <<>> THEN <<>>
  ELSE IF MatchesQuery(Head(list), searchQuery, tags)
       THEN <<Head(list)>> \o FilterContacts(Tail(list), searchQuery, tags)
       ELSE FilterContacts(Tail(list), searchQuery, tags)

\* the contact objects of the visible list
ContactObjects(ids, names, phones) ==
  [i \in 1..Len(ids) |->
     [id |-> ids[i], name |-> names[ids[i]], phone |-> phones[ids[i]]]]

\* useMemo displayedContacts
DisplayedContacts(list, searchQuery, tags, nativeDates, firstSeen) ==
  SortContacts(FilterContacts(list, searchQuery, tags), nativeDates, firstSeen)

\* 0.05 degree
MinimumSpan == 500

SetMin(S) == CHOOSE x \in S : \A y \in S : x <= y
SetMax(S) == CHOOSE x \in S : \A y \in S : x >= y

\* a center that sits on the lower edge of the box
MidpointLow(lo, hi) == lo

\* (min + max) / 2
Midpoint(lo, hi) == (lo + hi) \div 2

\* a delta without the minimum span
SpanDeltaNoFloor(span) == (span * 3) \div 2

\* Math.max(max - min, 0.05) * 1.5
SpanDelta(span) ==
  ((IF span > MinimumSpan THEN span ELSE MinimumSpan) * 3) \div 2

\* displayedContacts.filter(contact => locationPinsByContactId[contact.id])
ContactsWithLocationPins(shownIds, pins) == FilterSeq(shownIds, DOMAIN pins)

\* useMemo calculatedMapRegion
CalculatedMapRegion(pinnedIds, pins) ==
  IF Len(pinnedIds) = 0 THEN FallbackRegion
  ELSE LET latitudes  == {pins[id].latitude * DegreeUnits :
                            id \in Range(pinnedIds)}
           longitudes == {pins[id].longitude * DegreeUnits :
                            id \in Range(pinnedIds)}
           minLatitude  == SetMin(latitudes)
           maxLatitude  == SetMax(latitudes)
           minLongitude == SetMin(longitudes)
           maxLongitude == SetMax(longitudes)
       IN [latitude  |-> Midpoint(minLatitude, maxLatitude),
           longitude |-> Midpoint(minLongitude, maxLongitude),
           latitudeDelta  |-> SpanDelta(maxLatitude - minLatitude),
           longitudeDelta |-> SpanDelta(maxLongitude - minLongitude)]

\* the projection after a render: displayedContacts, the creationTime
\* renderItem computes for each of its rows, and the map's pins and region
Projected(names, phones, nativeDates, searchQuery) ==
  LET shown == DisplayedContacts(ContactObjects(contacts, names, phones),
                                 searchQuery, tagsByContactId, nativeDates,
                                 firstSeenTimestamps)
  IN [names |-> names, phones |-> phones, nativeCreationDates |-> nativeDates,
      searchQuery |-> searchQuery,
      displayedContacts |-> [i \in 1..Len(shown) |-> shown[i].id],
      creationTime |->
        [id \in {shown[i].id : i \in 1..Len(shown)} |->
           GetContactCreationTime(
             [id |-> id, name |-> names[id], phone |-> phones[id]],
             nativeDates, firstSeenTimestamps)],
      contactsWithLocationPins |->
        ContactsWithLocationPins([i \in 1..Len(shown) |-> shown[i].id],
                                 locationPinsByContactId),
      calculatedMapRegion |->
        CalculatedMapRegion(
          ContactsWithLocationPins([i \in 1..Len(shown) |-> shown[i].id],
                                   locationPinsByContactId),
          locationPinsByContactId)]

\* what the user can have typed into the search bar
Queries == {<<>>, <<" ">>, <<"a">>, <<"A", " ">>, <<"b">>}

\* onChangeText={setSearchQuery}, and the render that follows. Typing reads
\* no instant and starts no handler.
SetSearchQuery ==
  /\ RowsShown
  /\ \E text \in Queries \ {view.searchQuery} :
       view' = Projected(view.names, view.phones, view.nativeCreationDates,
                         text)
  /\ UNCHANGED <<directory, preexisting, phoneDates, eventsModule, clock,
                 permC, permL, storeVars, memVars, tasks, histVars>>

\* ------------------------------------------------- creation-date metadata
\* A Date is a count of instants, TicksPerSecond of them to the second. A
\* date string is null, an ISO 8601 string of whole seconds, or another text.
TicksPerSecond == 2
NullDate == [kind |-> "null", seconds |-> 0]
OtherText == [kind |-> "text", seconds |-> 0]

\* ISO8601DateFormatter().string(from:): the date to the second
FormatISO(date) == [kind |-> "iso", seconds |-> date \div TicksPerSecond]

\* Date.parse(string): NaN for null and for a text that is no date
DateParse(str) ==
  IF str.kind = "iso" THEN str.seconds * TicksPerSecond ELSE Missing

\* val.filter { "0123456789".contains($0) }
RECURSIVE FilterDigits(_)
FilterDigits(val) ==
  IF val = <<>> THEN <<>>
  ELSE IF Head(val) \in Digits THEN <<Head(val)>> \o FilterDigits(Tail(val))
       ELSE FilterDigits(Tail(val))

\* a choice that keeps the later creation date
LaterOf(date, existing) == IF date > existing THEN date ELSE existing

\* if c < existing { earliestCreation[digits] = c }
EarlierOf(date, existing) == IF date < existing THEN date ELSE existing

LatestOf(date, existing) == IF date > existing THEN date ELSE existing

\* one phone number of one person: the body of the inner loop
AddPhone(acc, val, created, modified) ==
  LET digits == FilterDigits(val)
      e == acc.earliestCreation
      l == acc.latestModification
  IN IF digits = <<>> THEN acc
     ELSE [earliestCreation |->
             IF created = Nil THEN e
             ELSE IF digits \in DOMAIN e
                  THEN Put(e, digits, EarlierOf(created, e[digits]))
                  ELSE Put(e, digits, created),
           latestModification |->
             IF modified = Nil THEN l
             ELSE IF digits \in DOMAIN l
                  THEN Put(l, digits, LatestOf(modified, l[digits]))
                  ELSE Put(l, digits, modified)]

RECURSIVE AddPhones(_, _, _, _)
AddPhones(acc, phones, created, modified) ==
  IF phones = <<>> THEN acc
  ELSE AddPhones(AddPhone(acc, Head(phones), created, modified),
                 Tail(phones), created, modified)

\* for person in people { ... }
RECURSIVE AddPeople(_, _)
AddPeople(acc, people) ==
  IF people = <<>> THEN acc
  ELSE AddPeople(AddPhones(acc, Head(people).phones, Head(people).created,
                           Head(people).modified),
                 Tail(people))

\* the rows built from the two dictionaries, one per key of either
PhoneDateRows(people) ==
  LET acc == AddPeople([earliestCreation |-> EmptyMap,
                        latestModification |-> EmptyMap], people)
      e == acc.earliestCreation
      l == acc.latestModification
  IN {[phone |-> p,
       creationDate |-> IF p \in DOMAIN e THEN FormatISO(e[p]) ELSE NullDate,
       modificationDate |->
         IF p \in DOMAIN l THEN FormatISO(l[p]) ELSE NullDate] :
        p \in (DOMAIN e) \cup (DOMAIN l)}

\* the orders in which a Set can be iterated
RowOrders(rows) ==
  {order \in [1..Cardinality(rows) -> rows] :
     \A i, j \in 1..Cardinality(rows) : order[i] = order[j] => i = j}

\* getPhoneDates, called by loadNativeContactCreationDates: it rejects when
\* the address book cannot be opened or read, and resolves with the rows
\* otherwise
GetPhoneDates ==
  /\ phoneDates.module = "present" /\ phoneDates.status = "none"
  /\ \/ phoneDates' = [phoneDates EXCEPT !.status = "rejected"]
     \/ \E rows \in RowOrders(PhoneDateRows(phoneDates.people)) :
          phoneDates' = [phoneDates EXCEPT !.status = "resolved",
                                           !.rows = rows]
  /\ UNCHANGED <<directory, preexisting, view, eventsModule, clock, permC,
                 permL, storeVars, memVars, tasks, histVars>>

\* for (const row of rows || []) { ... }
RECURSIVE PhoneToTimestampMap(_, _)
PhoneToTimestampMap(map, rows) ==
  IF rows = <<>> THEN map
  ELSE LET timestamp  == DateParse(Head(rows).creationDate)
           digitsOnly == ExtractDigitsOnly(Head(rows).phone)
       IN PhoneToTimestampMap(
            IF digitsOnly # <<>> /\ timestamp # Missing
            THEN Put(map, digitsOnly, timestamp) ELSE map,
            Tail(rows))

\* a lookup that lets the rejection through
NativeDatesRethrowing(dates) ==
  IF dates.module = "absent" THEN [threw |-> FALSE, value |-> EmptyMap]
  ELSE IF dates.status = "rejected" THEN [threw |-> TRUE, value |-> EmptyMap]
  ELSE [threw |-> FALSE, value |-> PhoneToTimestampMap(EmptyMap, dates.rows)]

\* loadNativeContactCreationDates: {} without the module and in the catch
NativeDates(dates) ==
  IF dates.module = "absent" THEN [threw |-> FALSE, value |-> EmptyMap]
  ELSE IF dates.status = "rejected" THEN [threw |-> FALSE, value |-> EmptyMap]
  ELSE [threw |-> FALSE, value |-> PhoneToTimestampMap(EmptyMap, dates.rows)]

\* loadNativeContactCreationDates returns, the fetch publishes its result
\* (setNativeCreationDates) and the list is projected again
LoadNativeContactCreationDates ==
  /\ \/ phoneDates.module = "absent" /\ phoneDates.status = "none"
     \/ phoneDates.status \in {"resolved", "rejected"}
  /\ phoneDates' = [phoneDates EXCEPT
                      !.status = IF NativeDates(phoneDates).threw
                                 THEN "threw" ELSE "loaded",
                      !.was = phoneDates.status]
  /\ view' = IF NativeDates(phoneDates).threw THEN view
             ELSE Projected(view.names, view.phones,
                            NativeDates(phoneDates).value, view.searchQuery)
  /\ UNCHANGED <<directory, preexisting, eventsModule, clock, permC, permL,
                 storeVars, memVars, tasks, histVars>>

\* ------------------------------------------------------------- environment
\* Every external event (a press, a signal, a lifecycle change, a contact
\* creation, a failing storage or directory operation) happens at an instant
\* of its own: it advances the clock and reads the new instant.
\* pull-to-refresh on the list: fetchContactsFromDevice(true)
Refresh ==
  /\ contactPermission = "granted" /\ ~showImportModal
  /\ HasFree(tasks) /\ clock < MaxTime
  /\ tasks' = Spawn(tasks, FetchTask(Idle, importMode, TRUE, "refresh"))
  /\ LoadingAtCall(TRUE)
  /\ clock' = clock + 1
  /\ NotDoneTrigger
  /\ UNCHANGED <<directory, preexisting, view, phoneDates, eventsModule, permC, permL, storeVars, contactPermission, contacts,
                 firstSeenTimestamps, tagsByContactId,
                 locationPinsByContactId, showImportModal, importMode>>

\* AppState 'active': initializeApp() of the current effect
Foreground ==
  /\ HasFree(tasks) /\ clock < MaxTime
  /\ tasks' = Spawn(tasks, [InitTask(importMode) EXCEPT !.origin = "foreground"])
  /\ clock' = clock + 1
  /\ NotDoneTrigger
  /\ UNCHANGED <<directory, preexisting, view, phoneDates, eventsModule, permC, permL, storeVars, memVars>>

\* the process is killed and launched again: storage and OS state survive,
\* the component mounts with its initial state and the bootstrap effect runs
Restart ==
  /\ clock < MaxTime
  /\ contactPermission' = "undetermined"
  /\ contacts' = <<>>
  /\ firstSeenTimestamps' = EmptyMap
  /\ tagsByContactId' = EmptyMap
  /\ locationPinsByContactId' = EmptyMap
  /\ isLoadingContacts' = FALSE /\ isRefreshing' = FALSE
  /\ showImportModal' = FALSE
  /\ importMode' = "unset"
  /\ tasks' = [s \in Slots |-> IF s = 1 THEN InitTask("unset") ELSE Idle]
  /\ clock' = clock + 1
  /\ last' = NoLast
  /\ written' = EmptyMap
  /\ captures' = EmptyMap
  /\ settled' = [Unsettled EXCEPT !.solo = TRUE]
  /\ unsaved' = NoneUnsaved
  /\ UNCHANGED <<seeded, pinned>>
  /\ UNCHANGED <<directory, preexisting, view, phoneDates, eventsModule, permC, permL, storeVars>>

\* a contact is created on the device
AddContact ==
  /\ Len(directory) < MaxContacts /\ clock < MaxTime
  /\ directory' = Append(directory, Len(directory) + 1)
  /\ clock' = clock + 1
  /\ last' = NoLast /\ UNCHANGED <<written, seeded, captures, pinned, unsaved>>
  /\ settled' = [Unsettled EXCEPT !.solo = Quiescent]
  /\ UNCHANGED <<preexisting, view, phoneDates, eventsModule, permC, permL, storeVars, memVars, tasks>>


\* -------------------------------------------------------------------- Init
Init ==
  /\ directory \in {<<>>, <<1>>}
  /\ preexisting = Range(directory)
  /\ view = NoView
  /\ phoneDates = NoPhoneDates /\ eventsModule = NoEventsModule
  /\ clock = InitClock
  /\ permC = "undetermined"
  /\ permL = "undetermined"
  /\ sFirstSeen = EmptyMap /\ sTags = EmptyMap /\ sPins = EmptyMap
  /\ sReady = Absent /\ sChoice = "unset"
  /\ contactPermission = "undetermined"
  /\ contacts = <<>>
  /\ firstSeenTimestamps = EmptyMap
  /\ tagsByContactId = EmptyMap
  /\ locationPinsByContactId = EmptyMap
  /\ isLoadingContacts = FALSE /\ isRefreshing = FALSE
  /\ showImportModal = FALSE
  /\ importMode = "unset"
  /\ tasks = [s \in Slots |-> IF s = 1 THEN InitTask("unset") ELSE Idle]
  /\ last = NoLast
  /\ written = EmptyMap
  /\ seeded = [set |-> FALSE, dir |-> <<>>]
  /\ captures = EmptyMap
  /\ pinned = {}
  /\ unsaved = NoneUnsaved
  /\ settled = [Unsettled EXCEPT !.solo = TRUE]

\* -------------------------------------------------------------------- Next
FetchStep(s) ==
  \/ FetchPerm(s) \/ FetchReq(s) \/ FetchLoaded(s)
  \/ FetchApplyAll(s) \/ FetchAllMarked(s)
  \/ FetchSeed(s) \/ FetchSeeded(s)
  \/ FetchApplyNewOnly(s) \/ FetchApplyUnset(s)
  \/ FetchFailed(s) \/ FetchReadyFailed(s)

InitStep(s) ==
  \/ InitPerm(s) \/ InitReq(s) \/ InitLoc(s) \/ InitLocReq(s) \/ InitChoice(s)

ChoiceStep(s) ==
  \/ ChooseAllSaved(s)
  \/ ChooseNewOnlyReady(s) \/ ChooseNewOnlyLoad(s)
  \/ ChooseNewOnlyEnum(s) \/ ChooseNewOnlyStamp(s)

ChangedStep(s) ==
  \/ ChangedEnum(s) \/ ChangedLoc(s) \/ ChangedFix(s) \/ ChangedFixFailed(s)
  \/ ChangedFixHangs(s)

Next ==
  \/ \E s \in Slots : FetchStep(s)
  \/ \E s \in Slots : InitStep(s)
  \/ \E s \in Slots : ChoiceStep(s)
  \/ \E s \in Slots : ChangedStep(s)
  \/ ChooseAll \/ ChooseNewOnly
  \/ ContactsChanged \/ ContactAddedWithLocation
  \/ Refresh \/ Foreground \/ Restart
  \/ AddContact

Spec == Init /\ [][Next]_vars

\* the app with the tag editor in use
TagEdit == AddTagToContact \/ RemoveTagFromContact

NextEdit == Next \/ TagEdit

SpecEdit == Init /\ [][NextEdit]_vars

\* The tag editor on its own: the app was launched with import-all chosen in
\* an earlier session, its fetch has completed, two contacts are listed and
\* the persisted tag map is any map over the tags "v" and "w".
TagLists == {<<>>, <<<<"v">>>>, <<<<"w">>>>, <<<<"v">>, <<"w">>>>,
             <<<<"w">>, <<"v">>>>}
TagMaps == UNION {[d -> TagLists] : d \in SUBSET {1, 2}}

InitTags ==
  /\ directory = <<1, 2>>
  /\ preexisting = {1, 2}
  /\ view = NoView
  /\ phoneDates = NoPhoneDates /\ eventsModule = NoEventsModule
  /\ clock = InitClock
  /\ permC = "granted" /\ permL = "granted"
  /\ sFirstSeen = (1 :> 1 @@ 2 :> 1)
  /\ sTags \in TagMaps
  /\ sPins = EmptyMap
  /\ sReady = READY_MARKER /\ sChoice = "all"
  /\ contactPermission = "granted"
  /\ contacts = directory
  /\ firstSeenTimestamps = sFirstSeen
  /\ tagsByContactId = sTags
  /\ locationPinsByContactId = EmptyMap
  /\ isLoadingContacts = FALSE /\ isRefreshing = FALSE
  /\ showImportModal = FALSE
  /\ importMode = "all"
  /\ tasks = [s \in Slots |-> Idle]
  /\ last = NoLast
  /\ written = EmptyMap
  /\ seeded = [set |-> FALSE, dir |-> <<>>]
  /\ captures = EmptyMap
  /\ pinned = {}
  /\ unsaved = NoneUnsaved
  /\ settled = Unsettled

NextTags == AddTagToContact \/ RemoveTagFromContact

SpecTags == InitTags /\ [][NextTags]_vars

\* The list projection on its own: the app was launched with import-all
\* chosen in an earlier session and its fetch has completed. The contacts have
\* any of three names and may have a phone number; the ledger holds one of
\* two instants for a contact or nothing; the creation metadata is empty or
\* holds an instant for the number 12.
MaxRows == 3
Names == {<<>>, <<"a">>, <<"B">>}
Phones == {<<>>, <<"1", "-", "2">>}
LedgerTimes == {100, 200}
NativeMaps == {EmptyMap, <<"1", "2">> :> 300}
SearchTagMaps == {EmptyMap, 1 :> <<<<"v">>>>, MaxRows :> <<<<"A", "b">>>>}
Ledgers == UNION {[d -> LedgerTimes] : d \in SUBSET (1..MaxRows)}

InitView ==
  /\ directory = [i \in 1..MaxRows |-> i]
  /\ preexisting = Range(directory)
  /\ clock = 301
  /\ phoneDates = NoPhoneDates /\ eventsModule = NoEventsModule
  /\ permC = "granted" /\ permL = "granted"
  /\ sFirstSeen \in Ledgers
  /\ sTags \in SearchTagMaps
  /\ sPins = EmptyMap
  /\ sReady = READY_MARKER /\ sChoice = "all"
  /\ contactPermission = "granted"
  /\ contacts = directory
  /\ firstSeenTimestamps = sFirstSeen
  /\ tagsByContactId = sTags
  /\ locationPinsByContactId = EmptyMap
  /\ isLoadingContacts = FALSE /\ isRefreshing = FALSE
  /\ showImportModal = FALSE
  /\ importMode = "all"
  /\ tasks = [s \in Slots |-> Idle]
  /\ last = NoLast
  /\ written = EmptyMap
  /\ seeded = [set |-> FALSE, dir |-> <<>>]
  /\ captures = EmptyMap
  /\ pinned = {}
  /\ unsaved = NoneUnsaved
  /\ settled = Unsettled
  /\ \E names \in [1..MaxRows -> Names], phones \in [1..MaxRows -> Phones],
        nativeDates \in NativeMaps :
       view = Projected(names, phones, nativeDates, <<>>)

NextView == SetSearchQuery

SpecView == InitView /\ [][NextView]_vars

\* The map on its own: as above, with contacts named 'a' or 'B', all stamped
\* by one fetch, and any pin map over three places.
MapFixes == Fixes \cup {<<30, 20>>}
MapNames == {<<"a">>, <<"B">>}
PinMaps ==
  UNION {[d -> {[latitude |-> fix[1], longitude |-> fix[2], timestamp |-> 100] :
                  fix \in MapFixes}] : d \in SUBSET (1..MaxRows)}

InitMap ==
  /\ directory = [i \in 1..MaxRows |-> i]
  /\ preexisting = {}
  /\ clock = 301
  /\ phoneDates = NoPhoneDates /\ eventsModule = NoEventsModule
  /\ permC = "granted" /\ permL = "granted"
  /\ sFirstSeen = [i \in 1..MaxRows |-> 100]
  /\ sTags = EmptyMap
  /\ sPins \in PinMaps
  /\ sReady = READY_MARKER /\ sChoice = "all"
  /\ contactPermission = "granted"
  /\ contacts = directory
  /\ firstSeenTimestamps = sFirstSeen
  /\ tagsByContactId = sTags
  /\ locationPinsByContactId = sPins
  /\ isLoadingContacts = FALSE /\ isRefreshing = FALSE
  /\ showImportModal = FALSE
  /\ importMode = "all"
  /\ tasks = [s \in Slots |-> Idle]
  /\ last = NoLast
  /\ written = EmptyMap
  /\ seeded = [set |-> FALSE, dir |-> <<>>]
  /\ captures = EmptyMap
  /\ pinned = DOMAIN sPins
  /\ unsaved = NoneUnsaved
  /\ settled = Unsettled
  /\ \E names \in [1..MaxRows -> MapNames] :
       view = Projected(names, [i \in 1..MaxRows |-> <<>>], EmptyMap, <<>>)

NextMap == SetSearchQuery

SpecMap == InitMap /\ [][NextMap]_vars

\* The creation-metadata lookup on its own: the people of the address book
\* are the contacts of the directory, each with a creation date or none, a
\* modification date or none, and one or two phone numbers; the list shows
\* the first number of each. The native module is absent, or present and not
\* called yet, or the capability has answered with rows of any kind.
Persons ==
  [created : {Nil, 3, 5}, modified : {Nil, 6},
   phones : {<<<<"-">>>>, <<<<"1", "-", "2">>>>,
             <<<<"(", "1", "2", ")">>, <<"3">>>>}]
AnyRows ==
  [phone : {<<"1", "2">>, <<"-">>},
   creationDate : {NullDate, OtherText, FormatISO(4)},
   modificationDate : {NullDate}]
AnyRowLists == {<<>>} \cup {<<r>> : r \in AnyRows}
                 \cup {<<r, q>> : r \in AnyRows, q \in AnyRows}

InitDates ==
  /\ directory = [i \in 1..MaxContacts |-> i]
  /\ preexisting = Range(directory)
  /\ clock = 301
  /\ eventsModule = NoEventsModule
  /\ permC = "granted" /\ permL = "granted"
  /\ sFirstSeen = (1 :> 100)
  /\ sTags = EmptyMap
  /\ sPins = EmptyMap
  /\ sReady = READY_MARKER /\ sChoice = "all"
  /\ contactPermission = "granted"
  /\ contacts = directory
  /\ firstSeenTimestamps = sFirstSeen
  /\ tagsByContactId = sTags
  /\ locationPinsByContactId = EmptyMap
  /\ isLoadingContacts = FALSE /\ isRefreshing = FALSE
  /\ showImportModal = FALSE
  /\ importMode = "all"
  /\ tasks = [s \in Slots |-> Idle]
  /\ last = NoLast
  /\ written = EmptyMap
  /\ seeded = [set |-> FALSE, dir |-> <<>>]
  /\ captures = EmptyMap
  /\ pinned = {}
  /\ unsaved = NoneUnsaved
  /\ settled = Unsettled
  /\ \E people \in [1..MaxContacts -> Persons] :
       /\ \/ \E module \in {"absent", "present"} :
               phoneDates = [people |-> people, module |-> module,
                             status |-> "none", rows |-> <<>>,
                             native |-> TRUE, was |-> "none"]
          \/ \E rows \in AnyRowLists :
               phoneDates = [people |-> people, module |-> "present",
                             status |-> "resolved", rows |-> rows,
                             native |-> FALSE, was |-> "none"]
       /\ view = Projected([i \in 1..MaxContacts |-> <<"a">>],
                           [i \in 1..MaxContacts |-> Head(people[i].phones)],
                           EmptyMap, <<>>)

NextDates == GetPhoneDates \/ LoadNativeContactCreationDates

SpecDates == InitDates /\ [][NextDates]_vars

\* a launch that may find the new-only choice persisted together with an
\* @nf:ready value that is not a number
InitGarbled ==
  /\ directory \in {<<>>, <<1>>}
  /\ preexisting = Range(directory)
  /\ view = NoView
  /\ phoneDates = NoPhoneDates /\ eventsModule = NoEventsModule
  /\ clock = InitClock
  /\ permC = "undetermined"
  /\ permL = "undetermined"
  /\ sFirstSeen = EmptyMap /\ sTags = EmptyMap /\ sPins = EmptyMap
  /\ sChoice \in {"unset", "newOnly"}
  /\ sReady = (IF sChoice = "newOnly" THEN Garbled ELSE Absent)
  /\ contactPermission = "undetermined"
  /\ contacts = <<>>
  /\ firstSeenTimestamps = EmptyMap
  /\ tagsByContactId = EmptyMap
  /\ locationPinsByContactId = EmptyMap
  /\ isLoadingContacts = FALSE /\ isRefreshing = FALSE
  /\ showImportModal = FALSE
  /\ importMode = "unset"
  /\ tasks = [s \in Slots |-> IF s = 1 THEN InitTask("unset") ELSE Idle]
  /\ last = NoLast
  /\ written = EmptyMap
  /\ seeded = [set |-> FALSE, dir |-> <<>>]
  /\ captures = EmptyMap
  /\ pinned = {}
  /\ unsaved = NoneUnsaved
  /\ settled = [Unsettled EXCEPT !.solo = TRUE]

SpecGarbled == InitGarbled /\ [][Next]_vars

\* ------------------------------------------------------------ properties
\* the map holds value v for id
Holds(map, id, v) == id \in DOMAIN map /\ map[id] = v

\* C1: once the new-only choice is persisted and the cutoff is written, the
\* visible list never contains a contact whose ledger entry (in memory or
\* persisted) equals the cutoff.
C1_PreExistingStayHidden ==
  (sChoice = "newOnly" /\ IsNumeric(sReady)) =>
    \A id \in Range(contacts) :
      /\ ~Holds(sFirstSeen, id, sReady)
      /\ ~Holds(firstSeenTimestamps, id, sReady)

\* C2: when the fetch called by the new-only choice handler completes, and
\* the ledger was empty when the user chose, the visible list is empty and
\* every contact of the directory at the time of the choice has a ledger
\* entry equal to the cutoff.
C2_NewOnlyFirstFetch ==
  (last.origin = "chooseNewOnly" /\ last.path \in Fetched /\ last.fresh) =>
    /\ contacts = <<>>
    /\ \A id \in Range(last.dir0) :
         /\ Holds(sFirstSeen, id, sReady)
         /\ Holds(firstSeenTimestamps, id, sReady)

\* C3: after the first fetch under the persisted new-only choice completed,
\* when a fetch that enumerated the directory with exactly one more contact
\* X completes (the earlier contacts still being stamped with the cutoff),
\* the visible list is <<X>> and the ledger entry of X is greater than the
\* cutoff.
C3_NewOnlySubsequentFetch ==
  (/\ seeded.set /\ sChoice = "newOnly"
   /\ last.path \in Fetched
   /\ Len(last.data) = Len(seeded.dir) + 1
   /\ \A id \in Range(seeded.dir) : Holds(sFirstSeen, id, sReady)) =>
    LET X == last.data[Len(last.data)] IN
    /\ contacts = <<X>>
    /\ Truthy(firstSeenTimestamps, X)
    /\ IsNumeric(sReady) /\ firstSeenTimestamps[X] > sReady

\* C4: when a fetch that was called under the persisted import-all choice
\* completes, every contact it enumerated has a ledger entry and the visible
\* list is the enumerated directory.
C4_ImportAllShowsAll ==
  (last.path \in Fetched /\ last.choice = "all" /\ sChoice = "all") =>
    /\ contacts = last.data
    /\ \A id \in Range(last.data) :
         Truthy(firstSeenTimestamps, id) /\ Truthy(sFirstSeen, id)

\* C5: no step replaces a first-seen entry, in memory or persisted, with a
\* larger instant.
NeverRaised(old, new) ==
  \A id \in (DOMAIN old) \cap (DOMAIN new) : new[id] <= old[id]

C5_FirstSeenNeverRaised ==
  [][/\ NeverRaised(firstSeenTimestamps, firstSeenTimestamps')
     /\ NeverRaised(sFirstSeen, sFirstSeen')]_vars

\* C6: when no handler is in flight, no write has failed and the listeners
\* have written pins for two contacts since the launch, the in-memory and the
\* persisted pin map hold those pins and both ledgers hold an entry for both
\* contacts.
C6_NoLostWrites ==
  (Quiescent /\ unsaved = NoneUnsaved /\ Cardinality(DOMAIN written) >= 2) =>
    \A id \in DOMAIN written :
      /\ Holds(locationPinsByContactId, id, written[id])
      /\ Holds(sPins, id, written[id])
      /\ id \in DOMAIN firstSeenTimestamps
      /\ id \in DOMAIN sFirstSeen

\* C7: when the refetch of a contact-added-with-location signal completes,
\* no write has failed and no later capture wrote the same id, the ledger
\* entry of the id is the signal's instant (the instant of receipt when it
\* had none) and the pin of the id is the signal's coordinates with that
\* instant.
C7_AddedSignalIsAuthoritative ==
  LET e   == last.ev
      t   == IF e.timestamp = Missing THEN e.at ELSE e.timestamp
      pin == [latitude |-> e.lat, longitude |-> e.lng, timestamp |-> t]
  IN
  (/\ last.origin = "added" /\ last.path \in Fetched
   /\ unsaved = NoneUnsaved /\ Holds(written, e.id, pin)) =>
    /\ Holds(firstSeenTimestamps, e.id, t)
    /\ Holds(sFirstSeen, e.id, t)
    /\ Holds(locationPinsByContactId, e.id, pin)
    /\ Holds(sPins, e.id, pin)

\* C8: the step of the directory-changed handler that receives the fix gives
\* every new id a pin with the fix's coordinates and a first-seen entry, and
\* leaves an existing first-seen entry of a new id unchanged.
C8_ChangedStampsOnlyAbsent ==
  [][\A s \in Slots :
       (/\ tasks[s].kind = "changed" /\ tasks[s].pc = "fix"
        /\ unsaved = NoneUnsaved
        /\ tasks'[s].kind = "fetch" /\ tasks'[s].ev # NoEvent) =>
         LET pin == [latitude |-> tasks'[s].ev.lat,
                     longitude |-> tasks'[s].ev.lng,
                     timestamp |-> tasks'[s].ev.timestamp]
         IN
         \A id \in tasks[s].ids :
           /\ Holds(locationPinsByContactId', id, pin)
           /\ Holds(sPins', id, pin)
           /\ id \in DOMAIN firstSeenTimestamps' /\ id \in DOMAIN sFirstSeen'
           /\ (id \in DOMAIN firstSeenTimestamps =>
                 firstSeenTimestamps'[id] = firstSeenTimestamps[id])
           /\ (id \in DOMAIN sFirstSeen => sFirstSeen'[id] = sFirstSeen[id])]_vars

\* C9: once an import mode is persisted, no step of the running app changes
\* the persisted mode, sets the in-memory mode back to unset, or opens the
\* import modal.
C9_ImportModeChosenOnce ==
  [][(sChoice # "unset" /\ ~Restart) =>
       /\ sChoice' = sChoice
       /\ (importMode # "unset" => importMode' # "unset")
       /\ (showImportModal' => showImportModal)]_vars

\* C10: once the choice is new-only and the cutoff marker holds an instant,
\* no step changes the marker.
C10_CutoffImmutable ==
  [][(sChoice = "newOnly" /\ IsNumeric(sReady)) => sReady' = sReady]_vars

\* C11: when no handler is in flight, no write has failed and the last two
\* captures of an id were contact-added-with-location signals (instants
\* t1 < t2, in that order), the in-memory and the persisted pin map hold for
\* that id the one pin written by the later signal.
C11_LaterCaptureOverwrites ==
  (Quiescent /\ unsaved = NoneUnsaved) =>
    \A id \in DOMAIN captures :
      captures[id] >= 2 =>
        /\ Holds(locationPinsByContactId, id, written[id])
        /\ Holds(sPins, id, written[id])

\* C12: no step of a fetch changes the persisted pin map, and every id that
\* has a pin, in memory or persisted, was pinned by the directory-changed
\* capture or by a contact-added-with-location signal.
C12_FetchCreatesNoPin ==
  [][/\ (\E s \in Slots : FetchStep(s)) => sPins' = sPins
     /\ (DOMAIN sPins') \cup (DOMAIN locationPinsByContactId') \subseteq pinned']_vars

\* a fetch has written pins and a listener has pinned a contact
C12_Witness ==
  /\ last.path \in Fetched
  /\ locationPinsByContactId # EmptyMap
  /\ DOMAIN locationPinsByContactId = DOMAIN sPins

\* the ledger, the visible list and the pin map, in memory and persisted
Reconciled ==
  <<firstSeenTimestamps, sFirstSeen, contacts, locationPinsByContactId, sPins>>

C14_BootstrapRerunSafe ==
  [][\A s \in Slots :
       (/\ settled.valid /\ settled.mode = sChoice /\ importMode = sChoice
        /\ tasks[s].origin = "foreground" /\ ~tasks[s].fault
        /\ (InitStep(s) \/ FetchStep(s))) =>
         UNCHANGED <<importMode, sReady, Reconciled>>]_vars

\* C15: when an import mode is chosen, the fix requested by the
\* directory-changed handler never resolves and no handler is left in flight,
\* every new id created since installation has a ledger entry and is in the
\* visible list unless the new-only cutoff hides it.
C15_HungFixKeepsContact ==
  (last.path = "hung" /\ Quiescent /\ importMode # "unset") =>
    \A id \in last.ids \ preexisting :
      /\ Truthy(firstSeenTimestamps, id)
      /\ (importMode = "newOnly" \/ id \in Range(contacts))

\* C16: no error escapes the directory-changed handler, and the step in which
\* it catches a location error writes no pin, leaves the ledger, the pin map
\* and the visible list unchanged and calls the refetch.
C16_ChangedCatchesErrors ==
  [][/\ last'.path # "threw"
     /\ \A s \in Slots :
          ChangedFixFailed(s) =>
            UNCHANGED Reconciled /\ tasks'[s].kind = "fetch"]_vars

\* the list the import mode of a completed fetch shows
Listed(l, ledger) ==
  CASE l.path = "seed"    -> <<>>
    [] l.path = "newOnly" ->
         FilterSeq(l.data, {id \in Range(l.data) : ShouldShow(ledger, id, l.ready)})
    [] OTHER              -> l.data

\* C17: with the contacts permission granted and the location permission
\* denied, the bootstrap goes on to read the import choice, a fetch none of
\* whose operations fails shows the list of its import mode, and the
\* directory-changed handler requests no fix, writes no pin and calls the
\* refetch.
C17_LocationDenialOnlySuppressesPins ==
  [][(permC = "granted" /\ permL' = "denied") =>
       \A s \in Slots :
         /\ (tasks[s].kind = "init" /\ tasks[s].pc \in {"loc", "locreq"}
              /\ InitStep(s)) => tasks'[s].pc = "choice"
         /\ (/\ tasks[s].kind = "fetch" /\ FetchStep(s)
              /\ tasks'[s].kind = "idle" /\ last'.path # "failed") =>
              /\ last'.path \in Fetched
              /\ contacts' = Listed(last', firstSeenTimestamps')
         /\ tasks'[s].kind = "changed" => tasks'[s].pc # "fix"
         /\ (tasks[s].kind = "changed" /\ tasks[s].pc = "loc" /\ ChangedStep(s)) =>
              /\ tasks'[s].kind = "fetch"
              /\ UNCHANGED <<sPins, locationPinsByContactId>>]_vars

\* the refetch of a directory-changed handler completes with a non-empty
\* list although the location permission is denied
C17_Witness ==
  /\ permC = "granted" /\ permL = "denied"
  /\ last.origin = "changed" /\ last.path \in Fetched
  /\ last.ids # {} /\ contacts # <<>> /\ sPins = EmptyMap

\* C18: a fetch that finds the contacts permission not granted ends without
\* enumerating and leaves the ledger, the tag map, the pin map, the cutoff
\* marker and the visible list unchanged; a bootstrap that finds it not
\* granted ends with the import modal hidden and calls no fetch.
C18_NoPermissionNoListing ==
  [][\A s \in Slots :
       /\ (/\ tasks[s].kind = "fetch" /\ tasks[s].pc \in {"perm", "req"}
            /\ FetchStep(s) /\ permC' # "granted" /\ tasks'[s].pc # "req") =>
             /\ tasks'[s] = Idle /\ last'.path = "denied"
             /\ UNCHANGED <<Reconciled, tagsByContactId, sTags, sReady>>
       /\ (tasks'[s].kind = "fetch" /\ tasks'[s].pc \notin {"perm", "req"}) =>
             permC' = "granted"
       /\ (/\ tasks[s].kind = "init" /\ tasks[s].pc \in {"perm", "req"}
            /\ InitStep(s) /\ permC' # "granted" /\ tasks'[s].pc # "req") =>
             /\ tasks'[s] = Idle /\ last'.path = "denied"
             /\ ~showImportModal'
             /\ \A r \in Slots : tasks'[r].kind = "fetch" => tasks[r].kind = "fetch"]_vars

\* a fetch called by a listener that had written a pin ends on the denied
\* contacts permission
C18_Witness ==
  /\ last.path = "denied" /\ last.origin = "added"
  /\ permC = "denied" /\ sPins # EmptyMap

\* the in-memory ledger, tag map, pin map and visible list
InMemory ==
  <<firstSeenTimestamps, tagsByContactId, locationPinsByContactId, contacts>>

\* C19: a fetch one of whose persistence reads failed changes nothing in
\* memory; a fetch that ends in its catch block has changed nothing in memory
\* before, clears both loading flags, and starts no other handler.
C19_FailedFetchPreservesState ==
  [][\A s \in Slots :
       (tasks[s].kind = "fetch" /\ FetchStep(s)) =>
         /\ tasks[s].fault => UNCHANGED InMemory
         /\ last'.path = "failed" =>
              /\ ~tasks[s].wrote /\ UNCHANGED InMemory
              /\ ~isLoadingContacts' /\ ~isRefreshing'
              /\ tasks' = [tasks EXCEPT ![s] = Idle]]_vars

C21_GarbledCutoffReseeds ==
  [][\A s \in Slots :
       (/\ tasks[s].kind = "fetch" /\ tasks[s].pc = "ready"
        /\ tasks[s].mode = "newOnly" /\ tasks[s].ready = Garbled
        /\ FetchStep(s) /\ ~FetchReadyFailed(s)) =>
         /\ IsNumeric(sReady')
         /\ \A id \in Range(tasks[s].data) : Holds(sFirstSeen', id, sReady')]_vars

\* C22: the step of a fetch that issues its reads does not end in the catch
\* block when a read fails, and the map the fetch goes on with is the empty
\* map for every record whose read failed (what an absent record reads as)
\* and the stored map for every other record.
C22_UnreadableRecordReadsAsDefault ==
  [][\A s \in Slots :
       (/\ tasks[s].kind = "fetch" /\ tasks[s].pc \in {"perm", "req"}
        /\ FetchStep(s) /\ permC' = "granted" /\ tasks'[s].pc # "req") =>
         LET t == tasks'[s] IN
         /\ t.kind = "fetch" /\ t.pc = "load"
         /\ t.fs = (IF "firstSeen" \in t.lost THEN EmptyMap ELSE sFirstSeen)
         /\ t.tags = (IF "tags" \in t.lost THEN EmptyMap ELSE sTags)
         /\ t.pins = (IF "pins" \in t.lost THEN EmptyMap ELSE sPins)]_vars

\* a fetch one of whose reads failed has completed through one of its
\* import-mode branches
C22_Witness ==
  /\ last.path \in Fetched /\ last.lost # {}

\* C23: an id whose pin (or ledger entry) was set in memory by a listener
\* while the write of that update failed still has a pin (a ledger entry) in
\* memory in every later state of the session.
C23_UnsavedUpdateStaysInMemory ==
  /\ \A id \in unsaved.pins : id \in DOMAIN locationPinsByContactId
  /\ \A id \in unsaved.firstSeen : Truthy(firstSeenTimestamps, id)

\* C24: no step of the running app, with every read and every write
\* succeeding, removes the ledger entry, in memory or persisted, of a contact
\* that is in the directory.
C24_LedgerEntryNeverRemoved ==
  [][(/\ ~Restart
      /\ unsaved = NoneUnsaved
      /\ \A s \in Slots : ~tasks[s].fault) =>
       \A id \in Range(directory) :
         /\ Truthy(firstSeenTimestamps, id) => Truthy(firstSeenTimestamps', id)
         /\ Truthy(sFirstSeen, id) => Truthy(sFirstSeen', id)]_vars

\* the tag set of a contact
TagSet(map, id) == Range(TagsOf(map, id))

\* C25: with every read succeeding, a step that is neither a tag edit nor a
\* relaunch leaves the persisted tag set of every contact unchanged, and
\* leaves the in-memory tag set of every contact either unchanged or equal
\* to the persisted one.
C25_OnlyTagEditsChangeTags ==
  [][(/\ ~TagEdit /\ ~Restart
      /\ \A s \in Slots : ~tasks[s].fault /\ ~tasks'[s].fault) =>
       \A id \in 1..MaxContacts :
         /\ TagSet(sTags', id) = TagSet(sTags, id)
         /\ \/ TagSet(tagsByContactId', id) = TagSet(tagsByContactId, id)
            \/ TagSet(tagsByContactId', id) = TagSet(sTags, id)]_vars

\* the text is the tag with white space around it
Padded(text, tag) ==
  \E i \in 1..(Len(text) + 1), j \in 0..Len(text) :
    /\ SubSeq(text, i, j) = tag
    /\ \A k \in 1..Len(text) : (k < i \/ k > j) => text[k] \in WhiteSpace

\* the text is empty or white space only
Blank(text) == \A k \in 1..Len(text) : text[k] \in WhiteSpace

\* every contact but the edited one has the tags it had
OthersKeepTags(id) ==
  \A other \in (1..MaxContacts) \ {id} :
    /\ other \in DOMAIN tagsByContactId' <=> other \in DOMAIN tagsByContactId
    /\ TagsOf(tagsByContactId', other) = TagsOf(tagsByContactId, other)

\* C26: adding a text that is, white space aside, a tag the contact has
\* leaves the tag map unchanged; adding an empty or white-space-only text
\* changes nothing, in memory or persisted; a contact never has a tag twice;
\* an add or a remove on one contact leaves the tags of every other contact
\* unchanged, and a removed tag is gone.
C26_TagsBehaveAsASet ==
  [][/\ \A id \in 1..MaxContacts, text \in TagTexts, fails \in BOOLEAN :
          AddTag(id, text, fails) =>
            /\ Blank(text) => UNCHANGED <<tagsByContactId, sTags>>
            /\ (\E t \in TagSet(tagsByContactId, id) : Padded(text, t)) =>
                 tagsByContactId' = tagsByContactId
            /\ Cardinality(TagSet(tagsByContactId', id))
                 = Len(TagsOf(tagsByContactId', id))
            /\ OthersKeepTags(id)
     /\ \A id \in 1..MaxContacts, fails \in BOOLEAN :
          \A tag \in TagSet(tagsByContactId, id) :
            RemoveTag(id, tag, fails) =>
              /\ TagSet(tagsByContactId', id)
                   = TagSet(tagsByContactId, id) \ {tag}
              /\ OthersKeepTags(id)]_vars

\* a padded text of a tag the contact already has was added, while the other
\* contact has tags of its own
C26_Witness ==
  /\ last.origin = "addTag" /\ last.path = "present"
  /\ \E id \in last.ids :
       /\ Len(TagsOf(tagsByContactId, id)) = 2
       /\ \E other \in (1..MaxContacts) \ {id} :
            TagsOf(tagsByContactId, other) # <<>>

\* d is the string of the digits of the phone number, in their order
IsDigitsOf(d, phone) ==
  LET pos == {i \in 1..Len(phone) : phone[i] \in Digits} IN
  /\ Len(d) = Cardinality(pos)
  /\ \A i \in pos : d[Cardinality({j \in pos : j <= i})] = phone[i]

TimeAt(i) == view.creationTime[view.displayedContacts[i]]

\* C28: in the list, no contact with an unknown creation time (0) is
\* above a contact with a known one, and of two contacts with known times the
\* upper one has the later or the same time.
C28_KnownFirstNewestFirst ==
  \A i, j \in 1..Len(view.displayedContacts) :
    i < j =>
      /\ TimeAt(j) # 0 => TimeAt(i) # 0
      /\ (TimeAt(i) # 0 /\ TimeAt(j) # 0) => TimeAt(i) >= TimeAt(j)

\* contact 1 known at 100, contact 2 known at 200, contact 3 unknown: after
\* a search that keeps all three, the list is [2, 1, 3]
C28_Witness ==
  /\ view.searchQuery # <<>>
  /\ view.displayedContacts = <<2, 1, 3>>
  /\ TimeAt(1) = 200 /\ TimeAt(2) = 100 /\ TimeAt(3) = 0

\* the name of the row at position i of the list
NameAt(i) == view.names[view.displayedContacts[i]]

\* x may stand above y in an alphabetical list that ignores case and has the
\* empty names last
NameInOrder(x, y) ==
  IF x = <<>> THEN y = <<>> ELSE (y = <<>> \/ ComparePrimary(x, y) <= 0)

\* C29: of two rows whose creation times are both unknown, or both known
\* and equal, the upper one has the name that comes first alphabetically,
\* case aside, an empty name coming after every other name.
C29_NameOrderAmongTies ==
  \A i, j \in 1..Len(view.displayedContacts) :
    (i < j /\ TimeAt(i) = TimeAt(j)) => NameInOrder(NameAt(i), NameAt(j))

\* the contact matches the text as typed: its name or one of its tags
\* contains the text, case aside
ContainsText(id, text) ==
  \/ Includes(ToLowerCase(view.names[id]), ToLowerCase(text))
  \/ \E tag \in TagSet(tagsByContactId, id) :
       Includes(ToLowerCase(tag), ToLowerCase(text))

\* the text without the white space around it
Stripped(text) ==
  CHOOSE core \in {SubSeq(text, i, j) : i \in 1..(Len(text) + 1),
                                        j \in 0..Len(text)} :
    /\ Padded(text, core)
    /\ core # <<>> => (core[1] \notin WhiteSpace
                        /\ core[Len(core)] \notin WhiteSpace)

\* C30 as stated: with a non-empty search text the list holds exactly the
\* visible contacts whose name or one of whose tags contains the text, case
\* aside; with an empty text it holds every visible contact.
C30_SearchAsStated ==
  Range(view.displayedContacts) =
    (IF view.searchQuery # <<>>
     THEN {id \in Range(contacts) : ContainsText(id, view.searchQuery)}
     ELSE Range(contacts))

\* C30: with a search text that is not empty once the white space
\* around it is removed, the list holds exactly the visible contacts whose
\* name or one of whose tags contains the text without that white space, case
\* aside, each once; with an empty or white-space-only text it holds every
\* visible contact, each once.
C30_SearchByTrimmedText ==
  /\ Range(view.displayedContacts) =
       (IF ~Blank(view.searchQuery)
        THEN {id \in Range(contacts) :
                ContainsText(id, Stripped(view.searchQuery))}
        ELSE Range(contacts))
  /\ Cardinality(Range(view.displayedContacts)) = Len(view.displayedContacts)

\* the text "A " was typed: the list holds contact 3, whose tag "Ab" matches
\* while its name does not, and leaves out a contact that matches nowhere
C30_Witness ==
  /\ view.searchQuery = <<"A", " ">>
  /\ MaxRows \in Range(view.displayedContacts)
  /\ ~Includes(ToLowerCase(view.names[MaxRows]), <<"a">>)
  /\ Range(view.displayedContacts) # Range(contacts)

\* the coordinates, in map units, of the pins of a set of contacts
PinLatitudes(ids) ==
  {locationPinsByContactId[id].latitude * DegreeUnits : id \in ids}
PinLongitudes(ids) ==
  {locationPinsByContactId[id].longitude * DegreeUnits : id \in ids}

\* lo and hi are the least and the greatest element of S
Bounds(S, lo, hi) ==
  lo \in S /\ hi \in S /\ \A x \in S : lo <= x /\ x <= hi

\* the region is the one the viewport rule gives for the pins of these
\* contacts: the fallback when there are none, otherwise the midpoint of the
\* bounding box and, per axis, 1.5 times the larger of the box span and the
\* minimum span
RegionFits(region, ids) ==
  IF ids = {} THEN region = FallbackRegion
  ELSE \E loLat, hiLat \in PinLatitudes(ids),
          loLng, hiLng \in PinLongitudes(ids) :
         /\ Bounds(PinLatitudes(ids), loLat, hiLat)
         /\ Bounds(PinLongitudes(ids), loLng, hiLng)
         /\ 2 * region.latitude = loLat + hiLat
         /\ 2 * region.longitude = loLng + hiLng
         /\ 2 * region.latitudeDelta
              = 3 * (IF hiLat - loLat >= MinimumSpan THEN hiLat - loLat
                     ELSE MinimumSpan)
         /\ 2 * region.longitudeDelta
              = 3 * (IF hiLng - loLng >= MinimumSpan THEN hiLng - loLng
                     ELSE MinimumSpan)
         /\ region.latitudeDelta > 0 /\ region.longitudeDelta > 0

\* C31 as stated: the region is the one the viewport rule gives for the
\* pins of every contact that has a pin.
C31_ViewportOfAllPins ==
  RegionFits(view.calculatedMapRegion, DOMAIN locationPinsByContactId)

\* C31: the region is the one the viewport rule gives for the pins of
\* the contacts of the projected list that have a pin: the fallback when no
\* listed contact has a pin, never a zero delta when their pins coincide.
C31_ViewportOfListedPins ==
  RegionFits(view.calculatedMapRegion,
             Range(view.displayedContacts)
               \cap DOMAIN locationPinsByContactId)

\* after a search was typed, two listed contacts have their pins at one place
\* while a third pinned contact is not listed
C31_Witness ==
  /\ view.searchQuery # <<>>
  /\ Len(view.contactsWithLocationPins) = 2
  /\ Cardinality(PinLatitudes(Range(view.contactsWithLocationPins))) = 1
  /\ Cardinality(PinLongitudes(Range(view.contactsWithLocationPins))) = 1
  /\ DOMAIN locationPinsByContactId # Range(view.contactsWithLocationPins)

\* the listed contacts with a pin are two, pinned at (10,10) and (10,20)
ScenarioPins ==
  /\ Len(view.contactsWithLocationPins) = 2
  /\ {<<locationPinsByContactId[id].latitude,
         locationPinsByContactId[id].longitude>> :
         id \in Range(view.contactsWithLocationPins)}
       = {<<10, 10>>, <<10, 20>>}

\* C32 as stated: with pins at (10,10) and (10,20) the center is (10,15),
\* longitudeDelta is at least 15 x 1.5 = 22.5 and latitudeDelta is at least
\* the minimum span.
C32_ScenarioAsStated ==
  ScenarioPins =>
    /\ view.calculatedMapRegion.latitude = 10 * DegreeUnits
    /\ view.calculatedMapRegion.longitude = 15 * DegreeUnits
    /\ 2 * view.calculatedMapRegion.longitudeDelta >= 3 * 15 * DegreeUnits
    /\ view.calculatedMapRegion.latitudeDelta >= MinimumSpan

\* C32: with pins at (10,10) and (10,20) the center is (10,15),
\* longitudeDelta is 10 x 1.5 = 15 and latitudeDelta is 1.5 times the minimum
\* span.
C32_ScenarioRegion ==
  ScenarioPins =>
    /\ view.calculatedMapRegion.latitude = 10 * DegreeUnits
    /\ view.calculatedMapRegion.longitude = 15 * DegreeUnits
    /\ view.calculatedMapRegion.longitudeDelta = 15 * DegreeUnits
    /\ 2 * view.calculatedMapRegion.latitudeDelta = 3 * MinimumSpan

\* the scenario's two pins are the ones on the map after a search was typed
C32_Witness == ScenarioPins /\ view.searchQuery # <<>>

\* the people that carry a phone number with these digits
Carriers(d) ==
  {i \in DOMAIN phoneDates.people :
     \E k \in DOMAIN phoneDates.people[i].phones :
       IsDigitsOf(d, phoneDates.people[i].phones[k])}

\* the date string is the date to the second
IsSecondOf(str, date) ==
  /\ str.kind = "iso"
  /\ str.seconds * TicksPerSecond <= date
  /\ date < (str.seconds + 1) * TicksPerSecond

\* the date string is the least (greatest) of the dates to the second, and
\* null when there is none
IsExtremeOf(str, dates, least) ==
  IF dates = {} THEN str = NullDate
  ELSE \E d \in dates :
         /\ \A x \in dates : IF least THEN d <= x ELSE d >= x
         /\ IsSecondOf(str, d)

UsableRows ==
  IF phoneDates.module = "absent" \/ phoneDates.was = "rejected" THEN {}
  ELSE {i \in DOMAIN phoneDates.rows :
          /\ phoneDates.rows[i].creationDate.kind = "iso"
          /\ \E k \in DOMAIN phoneDates.rows[i].phone :
               phoneDates.rows[i].phone[k] \in Digits}

\* C34: the lookup never ends in an error; once it has returned, the
\* mapping has an entry exactly for the digits of the usable rows (none
\* without the module or after a rejection), and a listed contact whose
\* number has no usable row resolves to its ledger entry, or to unknown (0)
\* without one.
C34_LookupFallsBackToLedger ==
  /\ phoneDates.status # "threw"
  /\ phoneDates.status = "loaded" =>
       /\ \A d \in DOMAIN view.nativeCreationDates :
            \E i \in UsableRows : IsDigitsOf(d, phoneDates.rows[i].phone)
       /\ \A i \in UsableRows :
            \E d \in DOMAIN view.nativeCreationDates :
              IsDigitsOf(d, phoneDates.rows[i].phone)
       /\ \A id \in Range(view.displayedContacts) :
            (\A i \in UsableRows :
               ~IsDigitsOf(ExtractDigitsOnly(view.phones[id]),
                           phoneDates.rows[i].phone)) =>
              view.creationTime[id] =
                (IF id \in DOMAIN firstSeenTimestamps
                 THEN firstSeenTimestamps[id] ELSE 0)

\* the capability answered with a row for the number of contact 1 whose
\* date does not parse and a row whose phone has no digits: the lookup has
\* returned and contact 1 shows its ledger entry
C34_Witness ==
  /\ phoneDates.status = "loaded" /\ phoneDates.was = "resolved"
  /\ \E i, j \in DOMAIN phoneDates.rows :
       /\ phoneDates.rows[i].creationDate.kind # "iso"
       /\ IsDigitsOf(ExtractDigitsOnly(view.phones[1]),
                     phoneDates.rows[i].phone)
       /\ ExtractDigitsOnly(phoneDates.rows[j].phone) = <<>>
  /\ ExtractDigitsOnly(view.phones[1]) # <<>>
  /\ view.creationTime[1] = 100

\* C35: a fetch that starts when an import mode is persisted runs with that
\* mode, and when it has enumerated the directory it does not end in the
\* branch of the unset mode (list = full directory, nothing stamped).
C35_FetchAppliesPersistedMode ==
  /\ \A s \in Slots :
       tasks[s].kind = "fetch" /\ tasks[s].choice # "unset" =>
         tasks[s].mode = tasks[s].choice
  /\ last.path \in Fetched /\ last.choice # "unset" => last.path # "unset"

\* the contacts that have a ledger entry, in memory or persisted
Known == {id \in Range(directory) :
            Truthy(firstSeenTimestamps, id) \/ Truthy(sFirstSeen, id)}

PinOf(map, id) == IF id \in DOMAIN map THEN map[id] ELSE NoEvent

\* C36: the new ids a directory-changed signal computes hold no contact that
\* has a ledger entry at that moment, and the handler's write changes the
\* pin of no contact that has a ledger entry, in memory or persisted.
C36_KnownContactsAreNotNew ==
  [][/\ ContactsChanged =>
          \A s \in Slots :
            tasks[s].kind = "idle" /\ tasks'[s].kind = "changed" =>
              tasks'[s].ids \cap Known = {}
     /\ \A s \in Slots :
          ChangedFix(s) =>
            \A id \in Known :
              /\ PinOf(locationPinsByContactId', id) =
                   PinOf(locationPinsByContactId, id)
              /\ PinOf(sPins', id) = PinOf(sPins, id)]_vars

\* C37: whenever no handler, fetch or write is in flight, the ledger, the
\* tag map and the pin map in memory equal the persisted ones.
C37_MemoryEqualsStoreAtRest ==
  Quiescent =>
    /\ firstSeenTimestamps = sFirstSeen
    /\ tagsByContactId = sTags
    /\ locationPinsByContactId = sPins

\* ------------------------------------------- the native events module
\* ContactsEventsModule.swift.  eventsModule holds its three stored
\* properties and what surrounds them:
\*   locationManager  "none" before the first manager is created, "prompt"
\*                    while the authorization prompt is shown, "updating"
\*                    between startUpdatingLocation and stopUpdatingLocation,
\*                    "idle" otherwise
\*   authorization    CLLocationManager.authorizationStatus()
\*   presented        the add-contact sheet is on screen
\*   stray            an update was queued before stopUpdatingLocation took
\*                    effect and is still to be delivered
\*   signals, sent    the ContactsChanged events counted, the
\*                    ContactAddedWithLocation events in order
\*   completed        the ids of the contacts created through the sheet
\*   waiting          history: the created contacts whose wait for a fix was
\*                    ended neither by their event, nor by a failure, nor by
\*                    an update that found no listener
\*   after            history: a location update or an authorization change
\*                    was handled since the last event, with no creation
\*                    completed in between
AuthorizationStatuses == {"notDetermined", "denied", "restricted", "authorized"}

\* the ContactsChanged signals counted in one behaviour
MaxSignals == 1

otherThanEvents == <<directory, preexisting, view, phoneDates, clock, permC,
                     permL, storeVars, memVars, tasks, histVars>>

\* JavaScript adds its first listener
StartObserving ==
  /\ ~eventsModule.hasListeners
  /\ eventsModule' = [eventsModule EXCEPT !.hasListeners = TRUE]
  /\ UNCHANGED otherThanEvents

\* JavaScript removes its last listener
StopObserving ==
  /\ eventsModule.hasListeners
  /\ eventsModule' = [eventsModule EXCEPT !.hasListeners = FALSE]
  /\ UNCHANGED otherThanEvents

\* CNContactStoreDidChange: forwarded only while JavaScript listens
HandleContactStoreDidChange ==
  /\ eventsModule.hasListeners
  /\ eventsModule.signals < MaxSignals
  /\ eventsModule' = [eventsModule EXCEPT !.signals = @ + 1]
  /\ UNCHANGED otherThanEvents

\* openAddContact(): present the sheet for a new contact
OpenAddContact ==
  /\ ~eventsModule.presented
  /\ Len(eventsModule.completed) < MaxContacts
  /\ eventsModule' = [eventsModule EXCEPT !.presented = TRUE]
  /\ UNCHANGED otherThanEvents

\* contactViewController(_:didCompleteWith:): nothing on cancel; else keep
\* the id, replace the location manager (the old one is released with its
\* queued updates) and, by the authorization status, ask, start or do nothing
ContactCompleted ==
  /\ eventsModule.presented
  /\ \E saved \in BOOLEAN :
       IF ~saved
         THEN eventsModule' = [eventsModule EXCEPT !.presented = FALSE]
         ELSE LET identifier == Len(eventsModule.completed) + 1
                  status == eventsModule.authorization
              IN eventsModule' = [eventsModule EXCEPT
                   !.presented = FALSE,
                   !.pendingContactId = identifier,
                   !.locationManager =
                      IF status = "notDetermined" THEN "prompt"
                      ELSE IF status = "authorized" THEN "updating"
                      ELSE "idle",
                   !.stray = FALSE,
                   !.completed = Append(@, identifier),
                   !.waiting = @ \cup {identifier},
                   !.after = FALSE]
  /\ UNCHANGED otherThanEvents

\* the user answers the prompt or changes the setting; with a manager alive
\* locationManager(_:didChangeAuthorization:) runs and starts the updates
\* when the new status is an authorized one
DidChangeAuthorization ==
  /\ \E status \in AuthorizationStatuses \ {"notDetermined"} :
       /\ status # eventsModule.authorization
       /\ eventsModule' = [eventsModule EXCEPT
            !.authorization = status,
            !.locationManager =
               IF @ = "none" THEN "none"
               ELSE IF status = "authorized" THEN "updating"
               ELSE IF @ = "prompt" THEN "idle" ELSE @,
            !.after = @ \/ (eventsModule.locationManager # "none"
                             /\ eventsModule.sent # <<>>
                             /\ eventsModule.pendingContactId = Nil)]
  /\ UNCHANGED otherThanEvents

\* a handler that sends the event and keeps the pending id
DidUpdateLocationsKeepingPending ==
  /\ \/ eventsModule.locationManager = "updating"
        /\ eventsModule.authorization = "authorized"
     \/ eventsModule.stray
  /\ \E fix \in Fixes, more \in BOOLEAN :
       LET contactId == eventsModule.pendingContactId
           emits == eventsModule.hasListeners /\ contactId # Nil
       IN eventsModule' = [eventsModule EXCEPT
            !.locationManager = IF @ = "none" THEN "none" ELSE "idle",
            !.stray = more /\ eventsModule.locationManager = "updating",
            !.pendingContactId = IF emits THEN @ ELSE Nil,
            !.sent = IF emits
                       THEN Append(@, [id |-> contactId, lat |-> fix[1],
                                       lng |-> fix[2], timestamp |-> clock])
                       ELSE @,
            !.waiting = IF emits THEN @ \ {contactId} ELSE {},
            !.after = IF emits THEN FALSE ELSE @ \/ eventsModule.sent # <<>>]
  /\ UNCHANGED otherThanEvents

\* locationManager(_:didUpdateLocations:): stop the updates; without a
\* listener or a pending id clear the id and return, else clear the id and
\* send ContactAddedWithLocation.  Core Location never delivers an empty
\* list, so locations.last is always there.
DidUpdateLocations ==
  /\ \/ eventsModule.locationManager = "updating"
        /\ eventsModule.authorization = "authorized"
     \/ eventsModule.stray
  /\ \E fix \in Fixes, more \in BOOLEAN :
       LET contactId == eventsModule.pendingContactId
           emits == eventsModule.hasListeners /\ contactId # Nil
       IN eventsModule' = [eventsModule EXCEPT
            !.locationManager = IF @ = "none" THEN "none" ELSE "idle",
            !.stray = more /\ eventsModule.locationManager = "updating",
            !.pendingContactId = Nil,
            !.sent = IF emits
                       THEN Append(@, [id |-> contactId, lat |-> fix[1],
                                       lng |-> fix[2], timestamp |-> clock])
                       ELSE @,
            !.waiting = IF emits THEN @ \ {contactId} ELSE {},
            !.after = IF emits THEN FALSE ELSE @ \/ eventsModule.sent # <<>>]
  /\ UNCHANGED otherThanEvents

\* locationManager(_:didFailWithError:): clear the id, stop the updates
DidFailWithError ==
  /\ eventsModule.locationManager = "updating"
  /\ eventsModule' = [eventsModule EXCEPT
       !.pendingContactId = Nil,
       !.locationManager = "idle",
       !.stray = FALSE,
       !.waiting = {}]
  /\ UNCHANGED otherThanEvents

\* the module as React Native creates it, the app at rest around it
InitEvents ==
  /\ directory = <<>>
  /\ preexisting = {}
  /\ clock = 301
  /\ view = NoView
  /\ phoneDates = NoPhoneDates /\ eventsModule = NoEventsModule
  /\ permC = "granted" /\ permL = "undetermined"
  /\ sFirstSeen = EmptyMap
  /\ sTags = EmptyMap
  /\ sPins = EmptyMap
  /\ sReady = READY_MARKER /\ sChoice = "all"
  /\ contactPermission = "granted"
  /\ contacts = directory
  /\ firstSeenTimestamps = sFirstSeen
  /\ tagsByContactId = sTags
  /\ locationPinsByContactId = sPins
  /\ isLoadingContacts = FALSE /\ isRefreshing = FALSE
  /\ showImportModal = FALSE
  /\ importMode = "all"
  /\ tasks = [s \in Slots |-> Idle]
  /\ last = NoLast
  /\ written = EmptyMap
  /\ seeded = [set |-> FALSE, dir |-> <<>>]
  /\ captures = EmptyMap
  /\ pinned = {}
  /\ unsaved = NoneUnsaved
  /\ settled = Unsettled

NextEvents ==
  \/ StartObserving
  \/ StopObserving
  \/ HandleContactStoreDidChange
  \/ OpenAddContact
  \/ ContactCompleted
  \/ DidChangeAuthorization
  \/ DidUpdateLocations
  \/ DidFailWithError

SpecEvents == InitEvents /\ [][NextEvents]_vars

\* Core Location answers a started manager: while it is updating, a fix or
\* a failure is eventually delivered.  Nothing obliges the user to answer the
\* prompt or to change the setting.
SpecEventsFair ==
  SpecEvents /\ WF_vars(DidUpdateLocations \/ DidFailWithError)

\* C38: after a contact creation completes, pendingContactId eventually
\* becomes nil, whatever the location authorization is.
C38_PendingEventuallyCleared ==
  (eventsModule.pendingContactId # Nil) ~> (eventsModule.pendingContactId = Nil)

\* the events sent for a contact
EventsFor(id) == {i \in DOMAIN eventsModule.sent : eventsModule.sent[i].id = id}

\* C39: every ContactAddedWithLocation event carries the id of a completed
\* creation and no creation has more than one event; an update or an
\* authorization change handled after the event finds no pending id.
C39_OneEventPerCreation ==
  /\ \A i \in DOMAIN eventsModule.sent :
       /\ eventsModule.sent[i].id \in Range(eventsModule.completed)
       /\ Cardinality(EventsFor(eventsModule.sent[i].id)) = 1
  /\ eventsModule.after => eventsModule.pendingContactId = Nil

\* the event of contact 1 was sent, then a further location update or an
\* authorization change was handled, and no other creation has completed
C39_Witness ==
  /\ eventsModule.after
  /\ eventsModule.completed = <<1>>
  /\ Len(eventsModule.sent) = 1

\* C40: once no contact is pending, no created contact is left waiting:
\* every creation whose wait was not ended by a failure or by a missing
\* listener has had its own event when the fix was delivered.
C40_EachCreationKeepsItsEvent ==
  eventsModule.pendingContactId = Nil => eventsModule.waiting = {}

====
